---- MODULE Spec2Model ----
(***************************************************************************)
(* Verification model of fronty.js (src/js/lib/fronty.js): the DOM tree    *)
(* diff and patch of TreeComparator, the observable Model, and the         *)
(* lifecycle of Component / ModelComponent.                                *)
(*                                                                         *)
(* The DOM is a heap: a sequence of node records, a node's identity being  *)
(* its index.  Patches name nodes by identity, as the JavaScript objects   *)
(* of the source do.  Positions are 0-based as in the source; At(s, i)     *)
(* reads element i of a sequence.                                          *)
(***************************************************************************)
EXTENDS Integers, Sequences, FiniteSets, TLC

VARIABLES
  heap,        \* the DOM nodes: heap[n] is the node with identity n
  node1,       \* root of the source tree handed to TreeComparator.diff
  node2,       \* root of the target tree handed to TreeComparator.diff
  target,      \* shape of the target tree when diff was called
  patches,     \* the operation list returned by diff
  phase,       \* "input", "diffed", "diverged", "applied", "threw"
  observers,   \* observers[m]: the observers array of Model m
  stack,       \* the JavaScript call stack of set() calls and observer calls
  returned,    \* history: the last set() call that returned
  removed,     \* history: removed[m] holds the observers whose last
               \* addObserver / removeObserver call on m was removeObserver
  lastOp,      \* history: the last addObserver / removeObserver call, if it
               \* was the last step
  comps,       \* comps[c]: the fields of Component c
  data,        \* data[m]: the application data held by Model m
  binds,       \* the number of functions created by update.bind(this)
  attached,    \* the event listeners of the DOM nodes: the listeners
               \* [node, eventType, callback] added and not removed
  window,      \* the browser window: the fragment of its location
               \* (location.hash) and the title of its document
  lastCall,    \* history: the last call the application made on a Component
  log          \* history: the calls, hooks and assignments of that call, in
               \* order

diffVars == <<heap, node1, node2, target, patches, phase>>

modelVars == <<observers, stack, returned, removed, lastOp>>

compVars == <<comps, data, binds, attached, window, lastCall, log>>

vars == <<heap, node1, node2, target, patches, phase,
          observers, stack, returned, removed, lastOp,
          comps, data, binds, attached, window, lastCall, log>>

----------------------------------------------------------------------------
(* Bounds of the tree inputs.                                              *)

\* longest child list of the trees whose children are all keyed elements
MaxKeyed == 3

\* longest child list of the trees whose children are of mixed kinds
MaxMixed == 2

\* deepest nesting of set() calls (a mutator or an observer calling set())
MaxDepth == 2

\* longest observers array
MaxObservers == 2

\* most DOM nodes created before the application stops calling Components
MaxNodes == 14

----------------------------------------------------------------------------
(* Generic helpers.                                                        *)

\* JavaScript null / undefined
Null == "#null"

At(s, i) == s[i + 1]

Range(s) == {s[i] : i \in 1..Len(s)}

SeqsUpTo(S, n) == UNION {[1..k -> S] : k \in 0..n}

\* 0-based position of x in s, -1 when absent (Array.prototype.indexOf)
IndexOf(s, x) ==
  IF \E i \in 1..Len(s) : s[i] = x
  THEN (CHOOSE i \in 1..Len(s) : s[i] = x /\ \A j \in 1..(i - 1) : s[j] # x) - 1
  ELSE -1

\* s without its element at 0-based position i (Array.prototype.splice(i, 1))
RemoveAt(s, i) == [j \in 1..(Len(s) - 1) |-> IF j <= i THEN s[j] ELSE s[j + 1]]

\* s with x inserted so that it gets 0-based position i
InsertAt(s, i, x) ==
  [j \in 1..(Len(s) + 1) |-> IF j <= i THEN s[j] ELSE IF j = i + 1 THEN x ELSE s[j - 1]]

----------------------------------------------------------------------------
(* The parts of the state a specification does not exercise stay as they   *)
(* are after construction.                                                 *)

Models == {"m1"}

NoReturn ==
  [valid |-> FALSE, model |-> Null, hint |-> Null, calls |-> <<>>, touched |-> FALSE,
   registered |-> <<>>]

NoOp == [op |-> "none", model |-> Null, fn |-> Null]

\* no tree is being compared
DiffIdle ==
  /\ heap = <<>>
  /\ node1 = 0
  /\ node2 = 0
  /\ target = Null
  /\ patches = <<>>
  /\ phase = "idle"

\* every Model as its constructor leaves it, and no call in progress
ModelIdle ==
  /\ observers = [m \in Models |-> <<>>]
  /\ stack = <<>>
  /\ returned = NoReturn
  /\ removed = [m \in Models |-> {}]
  /\ lastOp = NoOp

NoCall ==
  [op |-> "none", c |-> Null, stopped |-> TRUE, children |-> <<>>, component |-> Null]

\* the window of a page loaded without fragment, its document untitled; a
\* string read character by character is a sequence of characters
NoWindow == [hash |-> <<>>, title |-> ""]

\* no Component has been constructed
CompIdle ==
  /\ comps = <<>>
  /\ data = <<>>
  /\ binds = 0
  /\ attached = {}
  /\ window = NoWindow
  /\ lastCall = NoCall
  /\ log = <<>>

----------------------------------------------------------------------------
(* DOM nodes.  A shape is a tree value (what markup describes); Alloc      *)
(* creates the nodes of a shape in the heap, as the HTML parser does.      *)

TextShape(v) == [type |-> "text", tag |-> Null, value |-> v, attrs |-> <<>>, kids |-> <<>>]

ElemShape(t, as, ks) == [type |-> "elem", tag |-> t, value |-> Null, attrs |-> as, kids |-> ks]

NodeOf(s, p) ==
  [type |-> s.type, tag |-> s.tag, value |-> s.value, attrs |-> s.attrs,
   kids |-> <<>>, parent |-> p, propValue |-> Null, checked |-> FALSE]

RECURSIVE Alloc(_, _, _), AllocKids(_, _, _, _)

\* the heap with the tree of shape s created under parent p (0: detached);
\* the root of the new tree is node Len(h) + 1
Alloc(h, s, p) ==
  LET id == Len(h) + 1
      h1 == Append(h, NodeOf(s, p))
      h2 == IF p = 0 THEN h1 ELSE [h1 EXCEPT ![p].kids = Append(@, id)]
  IN AllocKids(h2, s.kids, id, 1)

AllocKids(h, ks, p, i) ==
  IF i > Len(ks) THEN h ELSE AllocKids(Alloc(h, ks[i], p), ks, p, i + 1)

RECURSIVE ShapeOf(_, _)

\* the shape of the tree rooted at node n
ShapeOf(h, n) ==
  [type |-> h[n].type, tag |-> h[n].tag, value |-> h[n].value, attrs |-> h[n].attrs,
   kids |-> [i \in 1..Len(h[n].kids) |-> ShapeOf(h, h[n].kids[i])]]

\* Node.ELEMENT_NODE test
IsElement(h, n) == h[n].type = "elem"

\* Element.getAttribute: the value, or null when the attribute is absent
getAttribute(h, n, name) ==
  IF \E i \in 1..Len(h[n].attrs) : h[n].attrs[i][1] = name
  THEN LET i == CHOOSE i \in 1..Len(h[n].attrs) : h[n].attrs[i][1] = name
       IN h[n].attrs[i][2]
  ELSE Null

hasAttribute(h, n, name) == \E i \in 1..Len(h[n].attrs) : h[n].attrs[i][1] = name

\* Element.setAttribute: overwrite in place, or add at the end
setAttribute(h, n, name, v) ==
  IF hasAttribute(h, n, name)
  THEN [h EXCEPT ![n].attrs =
          [i \in 1..Len(@) |-> IF @[i][1] = name THEN <<name, v>> ELSE @[i]]]
  ELSE [h EXCEPT ![n].attrs = Append(@, <<name, v>>)]

removeAttribute(h, n, name) ==
  [h EXCEPT ![n].attrs = SelectSeq(@, LAMBDA a : a[1] # name)]

\* x taken out of its parent's child list (the first step of every DOM insertion)
Detach(h, x) ==
  IF h[x].parent = 0 THEN h
  ELSE [h EXCEPT ![h[x].parent].kids = RemoveAt(@, IndexOf(@, x)), ![x].parent = 0]

\* Node.insertBefore(x, ref) on parent p; a null/undefined ref appends
insertBefore(h, p, x, ref) ==
  LET r  == IF ref = x
            THEN (LET i == IndexOf(h[p].kids, x)
                  IN IF i + 1 < Len(h[p].kids) THEN At(h[p].kids, i + 1) ELSE 0)
            ELSE ref
      h1 == Detach(h, x)
      ks == h1[p].kids
      at == IF r = 0 THEN Len(ks) ELSE IndexOf(ks, r)
  IN [h1 EXCEPT ![p].kids = InsertAt(ks, at, x), ![x].parent = p]

appendChild(h, p, x) == insertBefore(h, p, x, 0)

removeChild(h, p, x) == Detach(h, x)

\* Node.replaceChild(new, old) on parent p
replaceChild(h, p, new, old) ==
  LET h1 == insertBefore(h, p, new, old)
  IN Detach(h1, old)

----------------------------------------------------------------------------
(* TreeComparator.diff.  The operators return [ops, div]: the operation    *)
(* list built so far and whether the call fails to return.  The loop of    *)
(* _compareChildren is deterministic in (child1pos, child2pos,             *)
(* child1Array), so it never returns exactly when that triple recurs; the  *)
(* triples met are kept in `seen`.                                         *)

\* diff called without a comparePolicy argument
NoPolicy == {"#nopolicy"}

Ret(ops) == [ops |-> ops, div |-> FALSE]

\* Element.id: the id attribute, empty (falsy) when absent or on a text node
IdOf(h, n) ==
  IF IsElement(h, n) /\ hasAttribute(h, n, "id") THEN getAttribute(h, n, "id") ELSE ""

\* the comparePolicy callback Component.render passes to diff; pol is the
\* key set of childComponentIds
comparePolicy(h, pol, n1, n2) ==
  IF IdOf(h, n1) # "" /\ IdOf(h, n2) # "" /\ IdOf(h, n1) = IdOf(h, n2) /\ IdOf(h, n1) \in pol
  THEN "SKIP"
  ELSE IF IdOf(h, n1) # "" /\ IdOf(h, n1) \in pol
  THEN "REPLACE"
  ELSE "DIFF"

\* Node.nodeValue: null for an element
nodeValue(h, n) == h[n].value

\* the key -> position index of the keyed element children of node n; a key
\* met twice keeps its last position
ChildrenKeyIndex(h, n) ==
  LET ks    == h[n].kids
      keyed == {i \in 1..Len(ks) :
                  IsElement(h, ks[i]) /\ hasAttribute(h, ks[i], "key")
                  /\ getAttribute(h, ks[i], "key") # ""}
      keys  == {getAttribute(h, ks[i], "key") : i \in keyed}
  IN [k \in keys |->
        (CHOOSE i \in keyed : getAttribute(h, ks[i], "key") = k
                              /\ \A j \in keyed : getAttribute(h, ks[j], "key") = k => j <= i) - 1]

_buildChildrenKeyIndex(h, n1, n2) ==
  [keyElementIndexNode1 |-> ChildrenKeyIndex(h, n1),
   keyElementIndexNode2 |-> ChildrenKeyIndex(h, n2)]

\* `key in index` of the source; a null key is in no index
KeyIn(k, index) == k \in DOMAIN index

\* mutant: the array copy is left as it was
Mutant_swapArrayElements(arr, indexA, indexB) == arr

_swapArrayElements(arr, indexA, indexB) ==
  [arr EXCEPT ![indexA + 1] = arr[indexB + 1], ![indexB + 1] = arr[indexA + 1]]

\* mutant: values are compared, names are not, and elements never reach
\* `return true`
Mutant_equalAttributes(h, n1, n2) ==
  IF IsElement(h, n1) # IsElement(h, n2) THEN FALSE
  ELSE IF IsElement(h, n1) /\ Len(h[n1].attrs) # Len(h[n2].attrs) THEN FALSE
  ELSE IF IsElement(h, n1) /\ Len(h[n1].attrs) > 0 THEN FALSE
  ELSE TRUE

_equalAttributes(h, n1, n2) ==
  IF IsElement(h, n1) # IsElement(h, n2) THEN FALSE
  ELSE IF IsElement(h, n1) /\ Len(h[n1].attrs) # Len(h[n2].attrs) THEN FALSE
  ELSE IF IsElement(h, n1)
  THEN \A i \in 1..Len(h[n1].attrs) :
          /\ h[n1].attrs[i][1] = h[n2].attrs[i][1]
          /\ h[n1].attrs[i][2] = h[n2].attrs[i][2]
  ELSE TRUE

ReplacePatch(n1, n2) ==
  [mode |-> "replace", toReplace |-> n1, replacement |-> n2, beforePos |-> 0]

AttributesPatch(n1, n2) ==
  [mode |-> "attributes", toReplace |-> n1, replacement |-> n2, beforePos |-> 0]

RemovePatch(n) ==
  [mode |-> "remove-node", toReplace |-> n, replacement |-> 0, beforePos |-> 0]

InsertPatch(p, n, pos) ==
  [mode |-> "insert-node", toReplace |-> p, replacement |-> n, beforePos |-> pos]

AppendPatch(p, n) ==
  [mode |-> "append-child", toReplace |-> p, replacement |-> n, beforePos |-> 0]

SwapPatch(a, b) ==
  [mode |-> "swap-nodes", toReplace |-> a, replacement |-> b, beforePos |-> 0]

\* the operations emitted after the while loop of _compareChildren
RestOfChildren(h, n1, n2, child1pos, child2pos) ==
  IF child1pos < Len(h[n1].kids)
  THEN [i \in 1..(Len(h[n1].kids) - child1pos) |-> RemovePatch(At(h[n1].kids, child1pos + i - 1))]
  ELSE IF child2pos < Len(h[n2].kids)
  THEN [j \in 1..(Len(h[n2].kids) - child2pos) |->
          AppendPatch(n1, At(h[n2].kids, child2pos + j - 1))]
  ELSE <<>>

RECURSIVE diff(_, _, _, _), CompareLoop(_, _, _, _, _, _)

\* the while loop of _compareChildren from loop state st on, followed by the
\* trailing removals / appends
CompareLoop(h, n1, n2, pol, ix, st) ==
  IF ~(st.child1pos < Len(h[n1].kids) /\ st.child2pos < Len(h[n2].kids))
  THEN Ret(st.result \o RestOfChildren(h, n1, n2, st.child1pos, st.child2pos))
  ELSE IF <<st.child1pos, st.child2pos, st.child1Array>> \in st.seen
  THEN [ops |-> st.result, div |-> TRUE]
  ELSE
    LET child1 == At(st.child1Array, st.child1pos)
        child2 == At(h[n2].kids, st.child2pos)
        s1     == [st EXCEPT !.seen = @ \cup {<<st.child1pos, st.child2pos, st.child1Array>>}]
        key1   == getAttribute(h, child1, "key")
        key2   == getAttribute(h, child2, "key")
        index1 == ix.keyElementIndexNode1
        index2 == ix.keyElementIndexNode2
    IN
    IF ~IsElement(h, child1) /\ IsElement(h, child2)
    THEN CompareLoop(h, n1, n2, pol, ix,
           [s1 EXCEPT !.result = Append(@, RemovePatch(child1)),
                      !.child1pos = @ + 1, !.deletions = @ + 1])
    ELSE IF IsElement(h, child1) /\ ~IsElement(h, child2)
    THEN CompareLoop(h, n1, n2, pol, ix,
           [s1 EXCEPT !.result = Append(@, InsertPatch(n1, child2,
                                      st.child1pos + st.insertions - st.deletions)),
                      !.insertions = @ + 1, !.child2pos = @ + 1])
    ELSE IF ~IsElement(h, child1) /\ ~IsElement(h, child2)
    THEN LET partial == diff(h, child1, child2, pol)
         IN IF partial.div THEN [ops |-> st.result \o partial.ops, div |-> TRUE]
            ELSE CompareLoop(h, n1, n2, pol, ix,
                   [s1 EXCEPT !.result = @ \o partial.ops,
                              !.child1pos = @ + 1, !.child2pos = @ + 1])
    ELSE IF key1 # key2
    THEN IF KeyIn(key1, index2) /\ KeyIn(key2, index1)
         THEN CompareLoop(h, n1, n2, pol, ix,
                [s1 EXCEPT !.result = Append(@, SwapPatch(child1, At(h[n1].kids, index1[key2]))),
                           !.child1Array = _swapArrayElements(@, st.child1pos, index1[key2])])
         ELSE
           LET ins == ~KeyIn(key2, index1)
               rem == ~KeyIn(key1, index2)
               r1  == IF ins
                      THEN Append(st.result, InsertPatch(n1, child2,
                                    st.child1pos + st.insertions - st.deletions))
                      ELSE st.result
               r2  == IF rem THEN Append(r1, RemovePatch(child1)) ELSE r1
           IN CompareLoop(h, n1, n2, pol, ix,
                [s1 EXCEPT !.result = r2,
                           !.insertions = IF ins THEN @ + 1 ELSE @,
                           !.child2pos = IF ins THEN @ + 1 ELSE @,
                           !.child1pos = IF rem THEN @ + 1 ELSE @,
                           !.deletions = IF rem THEN @ + 1 ELSE @])
    ELSE LET partial == diff(h, child1, child2, pol)
         IN IF partial.div THEN [ops |-> st.result \o partial.ops, div |-> TRUE]
            ELSE CompareLoop(h, n1, n2, pol, ix,
                   [s1 EXCEPT !.result = @ \o partial.ops,
                              !.child1pos = @ + 1, !.child2pos = @ + 1])

_compareChildren(h, n1, n2, pol, result) ==
  CompareLoop(h, n1, n2, pol, _buildChildrenKeyIndex(h, n1, n2),
    [child1pos |-> 0, child2pos |-> 0, insertions |-> 0, deletions |-> 0,
     child1Array |-> h[n1].kids, result |-> result, seen |-> {}])

\* mutant: the comparePolicy argument is not consulted
Mutant_diff(h, n1, n2, pol) ==
  IF n1 = 0 THEN Ret(<<ReplacePatch(n1, n2)>>)
  ELSE IF \/ h[n1].tag # h[n2].tag
          \/ h[n1].type # h[n2].type
          \/ (nodeValue(h, n1) # Null /\ nodeValue(h, n2) # Null
              /\ nodeValue(h, n1) # nodeValue(h, n2))
  THEN Ret(<<ReplacePatch(n1, n2)>>)
  ELSE
    LET r == IF Len(h[n1].kids) > 0 \/ Len(h[n2].kids) > 0
             THEN _compareChildren(h, n1, n2, pol, <<>>)
             ELSE Ret(<<>>)
    IN IF r.div THEN r
       ELSE IF ~_equalAttributes(h, n1, n2)
       THEN Ret(Append(r.ops, AttributesPatch(n1, n2)))
       ELSE r

diff(h, n1, n2, pol) ==
  LET actionToDo == IF pol # NoPolicy THEN comparePolicy(h, pol, n1, n2) ELSE "DIFF"
  IN
  IF actionToDo = "SKIP" THEN Ret(<<>>)
  ELSE IF actionToDo = "REPLACE" THEN Ret(<<ReplacePatch(n1, n2)>>)
  ELSE IF n1 = 0 THEN Ret(<<ReplacePatch(n1, n2)>>)
  ELSE IF \/ h[n1].tag # h[n2].tag
          \/ h[n1].type # h[n2].type
          \/ (nodeValue(h, n1) # Null /\ nodeValue(h, n2) # Null
              /\ nodeValue(h, n1) # nodeValue(h, n2))
  THEN Ret(<<ReplacePatch(n1, n2)>>)
  ELSE
    LET r == IF Len(h[n1].kids) > 0 \/ Len(h[n2].kids) > 0
             THEN _compareChildren(h, n1, n2, pol, <<>>)
             ELSE Ret(<<>>)
    IN IF r.div THEN r
       ELSE IF ~_equalAttributes(h, n1, n2)
       THEN Ret(Append(r.ops, AttributesPatch(n1, n2)))
       ELSE r

----------------------------------------------------------------------------
(* TreeComparator.applyPatches.  The operators return [h, threw]: the heap *)
(* after the operations executed so far, and whether an operation raised   *)
(* (a TypeError on the parentNode of a detached node), which ends forEach. *)

\* mutant: obj2 is not moved to the place the helper element keeps
Mutant_swapElements(h, obj1, obj2) ==
  LET temp == Len(h) + 1
      h0   == Append(h, NodeOf(ElemShape("div", <<>>, <<>>), 0))
  IN IF h[obj1].parent = 0 THEN [h |-> h0, threw |-> TRUE]
     ELSE LET h1 == insertBefore(h0, h0[obj1].parent, temp, obj1)
          IN IF h1[obj2].parent = 0 THEN [h |-> h1, threw |-> TRUE]
             ELSE LET h2 == insertBefore(h1, h1[obj2].parent, obj1, obj2)
                  IN [h |-> removeChild(h2, h2[temp].parent, temp), threw |-> FALSE]

\* _swapElements; the helper element is node Len(h) + 1
_swapElements(h, obj1, obj2) ==
  LET temp == Len(h) + 1
      h0   == Append(h, NodeOf(ElemShape("div", <<>>, <<>>), 0))
  IN IF h[obj1].parent = 0 THEN [h |-> h0, threw |-> TRUE]
     ELSE LET h1 == insertBefore(h0, h0[obj1].parent, temp, obj1)
          IN IF h1[obj2].parent = 0 THEN [h |-> h1, threw |-> TRUE]
             ELSE LET h2 == insertBefore(h1, h1[obj2].parent, obj1, obj2)
                      h3 == insertBefore(h2, h2[temp].parent, obj2, temp)
                  IN [h |-> removeChild(h3, h3[temp].parent, temp), threw |-> FALSE]

RECURSIVE CopyAttributes(_, _, _, _), DropAttributes(_, _, _, _)

\* first loop of the 'attributes' mode, from attribute i (0-based) on
CopyAttributes(h, toReplace, replacement, i) ==
  IF i >= Len(h[replacement].attrs) THEN h
  ELSE
    LET attribute == At(h[replacement].attrs, i)
        h1 == IF attribute[1] = "value" /\ h[toReplace].propValue # attribute[2]
              THEN [h EXCEPT ![toReplace].propValue = attribute[2]] ELSE h
        h2 == IF attribute[1] = "checked"
              THEN [h1 EXCEPT ![toReplace].checked = TRUE] ELSE h1
    IN CopyAttributes(setAttribute(h2, toReplace, attribute[1], attribute[2]),
                      toReplace, replacement, i + 1)

\* second loop of the 'attributes' mode, from attribute j (0-based) down
DropAttributes(h, toReplace, replacement, j) ==
  IF j < 0 THEN h
  ELSE
    LET attribute == At(h[toReplace].attrs, j)
    IN IF ~hasAttribute(h, replacement, attribute[1])
       THEN LET h1 == IF attribute[1] = "checked"
                      THEN [h EXCEPT ![toReplace].checked = FALSE] ELSE h
            IN DropAttributes(removeAttribute(h1, toReplace, attribute[1]),
                              toReplace, replacement, j - 1)
       ELSE DropAttributes(h, toReplace, replacement, j - 1)

\* the body of the forEach of applyPatches, for one patch
ApplyPatch(h, patch) ==
  LET toReplace   == patch.toReplace
      replacement == patch.replacement
  IN
  IF patch.mode = "attributes"
  THEN LET h1 == CopyAttributes(h, toReplace, replacement, 0)
       IN [h |-> DropAttributes(h1, toReplace, replacement, Len(h1[toReplace].attrs) - 1),
           threw |-> FALSE]
  ELSE IF patch.mode = "remove-node"
  THEN IF h[toReplace].parent = 0 THEN [h |-> h, threw |-> TRUE]
       ELSE [h |-> removeChild(h, h[toReplace].parent, toReplace), threw |-> FALSE]
  ELSE IF patch.mode = "append-child"
  THEN [h |-> appendChild(h, toReplace, replacement), threw |-> FALSE]
  ELSE IF patch.mode = "insert-node"
  THEN IF Len(h[toReplace].kids) = 0
       THEN [h |-> appendChild(h, toReplace, replacement), threw |-> FALSE]
       ELSE [h |-> insertBefore(h, toReplace, replacement,
                     IF patch.beforePos >= 0 /\ patch.beforePos < Len(h[toReplace].kids)
                     THEN At(h[toReplace].kids, patch.beforePos) ELSE 0),
             threw |-> FALSE]
  ELSE IF patch.mode = "swap-nodes"
  THEN _swapElements(h, toReplace, replacement)
  ELSE IF toReplace = 0 \/ h[toReplace].parent = 0 THEN [h |-> h, threw |-> TRUE]
       ELSE [h |-> replaceChild(h, h[toReplace].parent, replacement, toReplace),
             threw |-> FALSE]

RECURSIVE ApplyFrom(_, _, _)

ApplyFrom(h, ps, i) ==
  IF i > Len(ps) THEN [h |-> h, threw |-> FALSE]
  ELSE LET r == ApplyPatch(h, ps[i])
       IN IF r.threw THEN r ELSE ApplyFrom(r.h, ps, i + 1)

applyPatches(h, ps) == ApplyFrom(h, ps, 1)

----------------------------------------------------------------------------
(* The trees diff is applied to: a root element whose children are keyed   *)
(* list items in any order, a root with children of mixed kinds, and       *)
(* roots that differ in kind or attributes.                                *)

Keys == {"a", "b", "c", "d"}

KeyedKid(k) == ElemShape("li", << <<"key", k>> >>, <<>>)

MixedKinds ==
  { TextShape("x"), TextShape("y"),
    ElemShape("p", <<>>, <<>>),
    ElemShape("p", << <<"class", "u">> >>, <<>>),
    ElemShape("p", <<>>, << TextShape("x") >>),
    KeyedKid("a"), KeyedKid("b") }

\* the key attribute of a child shape, null when it has none
KeyOfShape(s) ==
  IF \E i \in 1..Len(s.attrs) : s.attrs[i][1] = "key"
  THEN (LET i == CHOOSE i \in 1..Len(s.attrs) : s.attrs[i][1] = "key" IN s.attrs[i][2])
  ELSE Null

\* a key names one list item: no two children of a list carry the same key
UniqueKeys(ks) ==
  \A i, j \in 1..Len(ks) :
    (i # j /\ KeyOfShape(ks[i]) # Null) => KeyOfShape(ks[i]) # KeyOfShape(ks[j])

KeyedTrees ==
  {ElemShape("ul", <<>>, ks) :
     ks \in {q \in SeqsUpTo({KeyedKid(k) : k \in Keys}, MaxKeyed) : UniqueKeys(q)}}

MixedTrees ==
  {ElemShape("ul", <<>>, ks) : ks \in {q \in SeqsUpTo(MixedKinds, MaxMixed) : UniqueKeys(q)}}

RootTrees ==
  { TextShape("x"),
    ElemShape("ol", <<>>, <<>>),
    ElemShape("ul", << <<"class", "u">> >>, <<>>),
    ElemShape("ul", << <<"class", "w">> >>, <<>>),
    ElemShape("ul", << <<"class", "u">>, <<"title", "v">> >>, <<>>),
    ElemShape("ul", << <<"title", "v">>, <<"class", "u">> >>, <<>>),
    ElemShape("input", << <<"value", "v">>, <<"checked", "">> >>, <<>>),
    ElemShape("input", <<>>, <<>>) }

TreeShapes == KeyedTrees \cup MixedTrees \cup RootTrees

\* the document element the source tree hangs from
DocRoot == 1

\* the heap holding the source tree a under the document and the target tree
\* b under the dummy element its markup is parsed in
TwoTrees(a, b) ==
  LET h1 == Alloc(<< NodeOf(ElemShape("body", <<>>, <<>>), 0) >>, a, DocRoot)
      dummy == Len(h1) + 1
      h2 == Append(h1, NodeOf(ElemShape("div", <<>>, <<>>), 0))
  IN [h |-> Alloc(h2, b, dummy), node1 |-> DocRoot + 1, node2 |-> dummy + 1]

----------------------------------------------------------------------------
(* Specification of diff and applyPatches on every pair of trees.          *)

InitDiff ==
  \E a \in TreeShapes, b \in TreeShapes :
    /\ heap = TwoTrees(a, b).h
    /\ node1 = TwoTrees(a, b).node1
    /\ node2 = TwoTrees(a, b).node2
    /\ target = b
    /\ patches = <<>>
    /\ phase = "input"
    /\ ModelIdle
    /\ CompIdle

\* patches = TreeComparator.diff(node1, node2)
Diff ==
  /\ phase = "input"
  /\ LET r == diff(heap, node1, node2, NoPolicy)
     IN /\ patches' = r.ops
        /\ phase' = IF r.div THEN "diverged" ELSE "diffed"
  /\ UNCHANGED <<heap, node1, node2, target>>
  /\ UNCHANGED modelVars
  /\ UNCHANGED compVars

\* TreeComparator.applyPatches(patches)
ApplyPatches ==
  /\ phase = "diffed"
  /\ LET r == applyPatches(heap, patches)
     IN /\ heap' = r.h
        /\ phase' = IF r.threw THEN "threw" ELSE "applied"
  /\ UNCHANGED <<node1, node2, target, patches>>
  /\ UNCHANGED modelVars
  /\ UNCHANGED compVars

NextDiff == Diff \/ ApplyPatches

SpecDiff == InitDiff /\ [][NextDiff]_vars

----------------------------------------------------------------------------
(* Properties of TreeComparator, checked under SpecDiff.                   *)

\* the tree displayed in the place of the source tree
Displayed == At(heap[DocRoot].kids, 0)

RECURSIVE SameTree(_, _)

\* same node kinds, same text, same attributes (name to value), same children
SameTree(s, t) ==
  /\ s.type = t.type
  /\ s.tag = t.tag
  /\ s.value = t.value
  /\ Range(s.attrs) = Range(t.attrs)
  /\ Len(s.kids) = Len(t.kids)
  /\ \A i \in 1..Len(s.kids) : SameTree(s.kids[i], t.kids[i])

\* the keys of the children of the source tree, in child order
SourceKeys == [i \in 1..Len(heap[node1].kids) |-> getAttribute(heap, heap[node1].kids[i], "key")]

\* the keys of the children of the target tree, in child order
TargetKeys == [i \in 1..Len(target.kids) |-> KeyOfShape(target.kids[i])]

\* diff has been called on the pair
DiffCalled == phase # "input"

\* source and target children are the same uniquely keyed elements, reordered
KeyedPermutation ==
  /\ IsElement(heap, node1) /\ target.type = "elem"
  /\ \A i \in 1..Len(heap[node1].kids) : IsElement(heap, heap[node1].kids[i])
  /\ Null \notin Range(SourceKeys) \cup Range(TargetKeys)
  /\ Len(SourceKeys) = Len(TargetKeys)
  /\ Range(SourceKeys) = Range(TargetKeys)
  /\ Cardinality(Range(SourceKeys)) = Len(SourceKeys)
  /\ SourceKeys # TargetKeys

\* C1: for every pair of trees, diff returns an operation list, applying it
\* with applyPatches completes, and the source then has the kinds, children
\* and attributes of the target.
C1_PatchedSourceEqualsTarget ==
  /\ phase # "diverged"
  /\ phase # "threw"
  /\ phase = "applied" => SameTree(ShapeOf(heap, Displayed), target)

\* C2: for every reordering of the same uniquely keyed children, diff returns
\* an operation list made of swap-nodes operations only.
C2_PermutationYieldsSwapsOnly ==
  (DiffCalled /\ KeyedPermutation) =>
     /\ phase # "diverged"
     /\ \A i \in 1..Len(patches) : patches[i].mode = "swap-nodes"

\* C3: diffing children keyed a, b, c against children keyed b, a, c returns
\* exactly one operation, a swap-nodes of the nodes keyed a and b.
C3_SwapABOnce ==
  (phase \in {"diffed", "diverged"}
   /\ SourceKeys = <<"a", "b", "c">> /\ TargetKeys = <<"b", "a", "c">>) =>
     /\ phase = "diffed"
     /\ Len(patches) = 1
     /\ patches[1].mode = "swap-nodes"
     /\ getAttribute(heap, patches[1].toReplace, "key") = "a"
     /\ getAttribute(heap, patches[1].replacement, "key") = "b"
     /\ heap[patches[1].toReplace].parent = node1
     /\ heap[patches[1].replacement].parent = node1

C3_Witness ==
  /\ phase = "diffed"
  /\ SourceKeys = <<"a", "b", "c">>
  /\ TargetKeys = <<"b", "a", "c">>
  /\ Len(patches) = 1

\* C4: diffing a tree against an identical copy returns an empty operation
\* list.
C4_IdenticalCopyNoOps ==
  (phase \in {"diffed", "diverged"} /\ ShapeOf(heap, node1) = target) =>
     (phase = "diffed" /\ patches = <<>>)

\* an identical copy with attributes, text and element children was diffed
C4_Witness ==
  /\ phase = "diffed"
  /\ ShapeOf(heap, node1) = target
  /\ Len(target.kids) = MaxMixed
  /\ \E i \in 1..Len(target.kids) : target.kids[i].attrs # <<>>
  /\ \E i \in 1..Len(target.kids) : target.kids[i].type = "text"

----------------------------------------------------------------------------
(* Model.  A set() call is a frame of the call stack; the mutator and the  *)
(* observers are callbacks of the application, which may themselves call   *)
(* set(), addObserver() and removeObserver() before they return.  A step   *)
(* of the model runs the library code up to the next point where a         *)
(* callback is entered or control is back in application code.             *)

Fns == {"f", "g"}

Hints == {"h1", "h2"}

\* the hint a callback passes when it calls set() itself
NestedHint == "h3"

\* the hints of a set() call made with the given call stack
HintsAt(stk) == IF stk = <<>> THEN Hints ELSE {NestedHint}

\* an observer function of the application
PlainFn(f) == [kind |-> "function", of |-> f, serial |-> 0]

NoFn == [kind |-> "none", of |-> Null, serial |-> 0]

\* Model.addObserver
addObserver(obs, observer) == Append(obs, observer)

\* mutant: every entry equal to the observer is removed
Mutant_removeObserver(obs, observer) == SelectSeq(obs, LAMBDA o : o # observer)

\* Model.removeObserver
removeObserver(obs, observer) ==
  IF IndexOf(obs, observer) # -1 THEN RemoveAt(obs, IndexOf(obs, observer)) ELSE obs

\* mutant: observers are notified before the mutator is run
Mutant_SetBody == <<"notify", "update">>

\* the statements of Model.set: update(this); this.notifyObservers(hint)
SetBody == <<"update", "notify">>

\* mutant: the hint is not passed on
Mutant_ObserverArgs(m, hint) == <<m, Null>>

\* the arguments of observer(this, hint) in Model.notifyObservers
ObserverArgs(m, hint) == <<m, hint>>

\* a call of set() on the stack; the history field registered holds the
\* observers array as it was when the call started to notify
SetFrame(m, hint) ==
  [kind |-> "set", model |-> m, hint |-> hint, pc |-> 1, st |-> "start",
   mutated |-> FALSE, i |-> 0, n |-> 0, calls |-> <<>>,
   touched |-> FALSE, fn |-> NoFn, args |-> <<>>, afterRemoval |-> FALSE,
   registered |-> <<>>]

ObserverFrame(m, hint, fn, args, stale) ==
  [kind |-> "observer", model |-> m, hint |-> hint, pc |-> 0, st |-> "running",
   mutated |-> FALSE, i |-> 0, n |-> 0, calls |-> <<>>,
   touched |-> FALSE, fn |-> fn, args |-> args, afterRemoval |-> stale,
   registered |-> <<>>]

Top(stk) == stk[Len(stk)]

Pop(stk) == SubSeq(stk, 1, Len(stk) - 1)

RECURSIVE Enter(_, _, _), ForEach(_, _, _)

\* the set() call on top of the stack starts statement pc of its body, or
\* returns when the body is finished; obs are the observers arrays and rem
\* the removed observers
Enter(obs, rem, stk) ==
  LET top == Top(stk)
  IN
  IF top.pc > Len(SetBody)
  THEN [stack |-> Pop(stk),
        returned |-> [valid |-> TRUE, model |-> top.model, hint |-> top.hint,
                      calls |-> top.calls, touched |-> top.touched,
                      registered |-> top.registered]]
  ELSE IF SetBody[top.pc] = "update"
  THEN [stack |-> [stk EXCEPT ![Len(stk)].st = "running"], returned |-> NoReturn]
  ELSE ForEach(obs, rem,
         [stk EXCEPT ![Len(stk)] =
            [@ EXCEPT !.st = "running", !.i = 0, !.n = Len(obs[top.model]),
                      !.registered = obs[top.model]]])

\* this.observers.forEach(...) of notifyObservers from index i on: the length
\* is read once, an index the array no longer has is passed over
ForEach(obs, rem, stk) ==
  LET top == Top(stk)
      m   == top.model
  IN
  IF top.i < top.n
  THEN IF top.i < Len(obs[m])
       THEN LET observer == At(obs[m], top.i)
                args     == ObserverArgs(m, top.hint)
                call     == [fn |-> observer, args |-> args, mutated |-> top.mutated]
            IN [stack |-> Append([stk EXCEPT ![Len(stk)].calls = Append(@, call)],
                                 ObserverFrame(m, top.hint, observer, args,
                                               observer \in rem[m])),
                returned |-> NoReturn]
       ELSE ForEach(obs, rem, [stk EXCEPT ![Len(stk)].i = @ + 1])
  ELSE Enter(obs, rem, [stk EXCEPT ![Len(stk)] = [@ EXCEPT !.pc = @ + 1, !.st = "start"]])

\* the number of set() calls in progress
Depth(stk) == Cardinality({j \in 1..Len(stk) : stk[j].kind = "set"})

\* the set() calls that are iterating the observers of m see the array change
Touch(stk, m, changed) ==
  [j \in 1..Len(stk) |->
     IF changed /\ stk[j].kind = "set" /\ stk[j].model = m /\ stk[j].st = "running"
        /\ SetBody[stk[j].pc] = "notify"
     THEN [stk[j] EXCEPT !.touched = TRUE]
     ELSE stk[j]]

\* model.set(update, hint), from the application or from a callback
Set(m, hint) ==
  /\ Depth(stack) < MaxDepth
  /\ LET r == Enter(observers, removed, Append(stack, SetFrame(m, hint)))
     IN /\ stack' = r.stack
        /\ returned' = r.returned
  /\ UNCHANGED <<observers, removed, lastOp>>

\* the mutator passed to set() returns
UpdateReturns ==
  /\ stack # <<>>
  /\ Top(stack).kind = "set"
  /\ Top(stack).st = "running"
  /\ SetBody[Top(stack).pc] = "update"
  /\ LET r == Enter(observers, removed,
                [stack EXCEPT ![Len(stack)] =
                   [@ EXCEPT !.mutated = TRUE, !.pc = @ + 1, !.st = "start"]])
     IN /\ stack' = r.stack
        /\ returned' = r.returned
  /\ UNCHANGED <<observers, removed, lastOp>>

\* the observer being invoked returns
ObserverReturns ==
  /\ stack # <<>>
  /\ Top(stack).kind = "observer"
  /\ LET below == Pop(stack)
         r == ForEach(observers, removed, [below EXCEPT ![Len(below)].i = @ + 1])
     IN /\ stack' = r.stack
        /\ returned' = r.returned
  /\ UNCHANGED <<observers, removed, lastOp>>

\* model.addObserver(fn), from the application or from a callback
AddObserver(m, fn) ==
  /\ Len(observers[m]) < MaxObservers
  /\ observers' = [observers EXCEPT ![m] = addObserver(@, fn)]
  /\ stack' = Touch(stack, m, TRUE)
  /\ returned' = NoReturn

\* model.removeObserver(fn), from the application or from a callback
RemoveObserver(m, fn) ==
  /\ observers' = [observers EXCEPT ![m] = removeObserver(@, fn)]
  /\ stack' = Touch(stack, m, removeObserver(observers[m], fn) # observers[m])
  /\ returned' = NoReturn

\* the models whose calls are explored
SetModels == {"m1"}

InitModel == ModelIdle /\ DiffIdle /\ CompIdle

(* Reentrant use: set(), addObserver() and removeObserver() called from    *)
(* the application and from inside mutators and observers.                 *)
NextModel ==
  \/ \E m \in SetModels, hint \in HintsAt(stack) :
       Set(m, hint) /\ UNCHANGED <<diffVars, compVars>>
  \/ UpdateReturns /\ UNCHANGED <<diffVars, compVars>>
  \/ ObserverReturns /\ UNCHANGED <<diffVars, compVars>>
  \/ \E m \in SetModels, f \in Fns :
       /\ AddObserver(m, PlainFn(f))
       /\ UNCHANGED <<removed, lastOp>>
       /\ UNCHANGED <<diffVars, compVars>>
  \/ \E m \in SetModels, f \in Fns :
       /\ RemoveObserver(m, PlainFn(f))
       /\ UNCHANGED <<removed, lastOp>>
       /\ UNCHANGED <<diffVars, compVars>>

SpecModel == InitModel /\ [][NextModel]_vars

(* Registration history: sequences of addObserver / removeObserver calls   *)
(* followed by set() calls of the application.                             *)

\* addObserver(fn), called by the application, is the latest registration
\* call for fn
TrackAdd(m, fn) ==
  /\ stack = <<>>
  /\ removed' = [removed EXCEPT ![m] = @ \ {fn}]
  /\ lastOp' = [op |-> "add", model |-> m, fn |-> fn.of]

\* removeObserver(fn), called by the application, is the latest
\* registration call for fn
TrackRemove(m, fn) ==
  /\ stack = <<>>
  /\ removed' = [removed EXCEPT ![m] = @ \cup {fn}]
  /\ lastOp' = [op |-> "remove", model |-> m, fn |-> fn.of]

\* set() called by the application, after the registration calls
SetFromApplication(m, hint) ==
  /\ stack = <<>>
  /\ Set(m, hint)

NextObservers ==
  \/ \E m \in SetModels, hint \in Hints :
       SetFromApplication(m, hint) /\ UNCHANGED <<diffVars, compVars>>
  \/ UpdateReturns /\ UNCHANGED <<diffVars, compVars>>
  \/ ObserverReturns /\ UNCHANGED <<diffVars, compVars>>
  \/ \E m \in SetModels, f \in Fns :
       AddObserver(m, PlainFn(f)) /\ TrackAdd(m, PlainFn(f)) /\ UNCHANGED <<diffVars, compVars>>
  \/ \E m \in SetModels, f \in Fns :
       /\ RemoveObserver(m, PlainFn(f))
       /\ TrackRemove(m, PlainFn(f))
       /\ UNCHANGED <<diffVars, compVars>>

SpecObservers == InitModel /\ [][NextObservers]_vars

----------------------------------------------------------------------------
(* Properties of Model.set and notifyObservers, checked under SpecModel.   *)

\* the mutator passed to the set() call of frame fr is executing
MutatorRunning(fr) == fr.kind = "set" /\ fr.st = "running" /\ SetBody[fr.pc] = "update"

\* the observers a returned set() call invoked, in invocation order
NotifiedBy(ret) == [k \in 1..Len(ret.calls) |-> ret.calls[k].fn]

C6_NoObserverWhileAnyMutatorRuns ==
  \A i, j \in 1..Len(stack) :
    ~(stack[i].kind = "observer" /\ MutatorRunning(stack[j])
      /\ stack[i].model = stack[j].model)

\* C6 amended: every observer on the call stack was invoked by a set() call
\* whose own mutator had returned, and a set() call whose mutator is
\* executing has invoked no observer yet.
C6_NoObserverBeforeOwnMutatorReturns ==
  /\ \A j \in 1..Len(stack) :
       stack[j].kind = "observer" =>
         /\ j > 1
         /\ stack[j - 1].kind = "set"
         /\ stack[j - 1].mutated
         /\ ~MutatorRunning(stack[j - 1])
  /\ \A j \in 1..Len(stack) : MutatorRunning(stack[j]) => stack[j].calls = <<>>

\* an observer is being invoked by a set() call nested in another set() call
C6_Witness ==
  /\ stack # <<>>
  /\ Top(stack).kind = "observer"
  /\ Depth(stack) = 2
  /\ stack[Len(stack) - 1].mutated

----------------------------------------------------------------------------
(* Properties of addObserver / removeObserver, checked under SpecObservers.*)

\* C7: an observer whose latest registration call was removeObserver is not
\* invoked by a later set().
C7_RemovedObserverNotNotified ==
  \A j \in 1..Len(stack) : stack[j].kind = "observer" => ~stack[j].afterRemoval

\* C8: removeObserver(fn) leaves the observers array unchanged when fn is
\* not registered, and a second removeObserver(fn) right after a first one
\* changes nothing more.
C8_RemoveObserverIdempotent ==
  [][lastOp'.op = "remove" =>
       LET m  == lastOp'.model
           fn == PlainFn(lastOp'.fn)
       IN /\ fn \notin Range(observers[m]) => observers'[m] = observers[m]
          /\ (lastOp = lastOp') => observers'[m] = observers[m]]_vars

----------------------------------------------------------------------------
(* Component and ModelComponent.  A call of the application on a Component *)
(* runs to its end in one step; the operators take and return the program  *)
(* state S = [comps, heap, observers, binds, attached, data, log, fail,    *)
(* called].  fail names                                                    *)
(* how the call ended when it did not return: "threw" (an exception left   *)
(* it) or "diverged" (diff never returned); the statements after the       *)
(* failing one are not executed.  called holds the hooks of the subclasses  *)
(* that have made their call during the call of the application.           *)

\* the Components the application constructs, with their render-target ids
Comps == {"p", "c1", "c2"}

\* the Components of the page that re-renders itself: "r" declares the
\* child tag "T" and overrides beforeRender, the renderer and afterRender
\* to call this.render(); "a" has a render-target id that no element of the
\* document carries; "n" is constructed without render-target id
PageComps == {"r", "a", "n"}

Reentrant == {"r"}

NoTarget == {"n"}

\* the Component constructed with the render-target id of "c1"
Homonyms == {"d"}

\* the instances the child factory makes, one after the other, for the
\* element <t id="k1">; their onStart calls render() on the parent "r"
Instances == <<"k1", "k1'", "k1''">>

TagComps == Range(Instances)

\* the Components of the page with slots: the ModelComponent "s", whose
\* markup holds the slots of its children "c1" and "c2" where its model says
SlotComps == {"s", "c1", "c2"}

Framing == {"s"}

\* the instances of ModelComponent, each constructed with the Model "m1"
ModelComps == {"p", "r", "s", "g", "router"}

\* the Component of the page whose child tags have no constructor: "g"
\* declares the child tag "V", a name bound to a value that is no function,
\* and the child tag "U", a name that is bound to nothing
Tagged == {"g"}

\* the childTags argument of the constructor
ChildTagsOf(c) ==
  IF c \in Reentrant THEN <<"T">> ELSE IF c \in Tagged THEN <<"V", "U">> ELSE <<>>

\* the classes eval(tagName) finds
Constructors == {"T"}

\* the names eval(tagName) finds bound to a value that is not a function
NotFunctions == {"V"}

\* tag names are matched in lower case
toLowerCase(tagName) ==
  IF tagName = "T" THEN "t"
  ELSE IF tagName = "V" THEN "v"
  ELSE IF tagName = "U" THEN "u"
  ELSE tagName

\* the values a mutator assigns to the Model
Values == {"x", "y"}

\* the fields the constructors of Component and ModelComponent set, and the
\* history field sinceStart: what became of the render() calls made on the
\* component since its stopped flag was last cleared ("no": none was made,
\* "dropped": none got past the tests of _doRender, "raised": none ran to
\* its end, "yes": one ran to its end)
NewComponent(c) ==
  [htmlNodeId |-> IF c \in NoTarget THEN Null
                  ELSE IF c \in Homonyms THEN "c1" ELSE c,
   stopped |-> TRUE, rendering |-> FALSE,
   childComponents |-> <<>>, childComponentIds |-> <<>>,
   eventListeners |-> <<>>, _listeners |-> <<>>,
   childTags |-> ChildTagsOf(c),
   childComponentsByTag |-> [t \in Range(ChildTagsOf(c)) |-> <<>>],
   models |-> IF c \in ModelComps THEN <<"m1">> ELSE <<>>,
   sinceStart |-> "no"]

\* record in sinceStart how a render() call on the started component c ended
Mark(S, c, how) ==
  IF S.comps[c].stopped \/ S.comps[c].sinceStart = "yes" THEN S
  ELSE [S EXCEPT !.comps[c].sinceStart = how]

Event(ev, c) == [ev |-> ev, c |-> c]

Log(S, ev, c) == [S EXCEPT !.log = Append(@, Event(ev, c))]

\* the call does not return
Fail(S, how, c) == [Log(S, how, c) EXCEPT !.fail = how]

\* obj[key] = value on a JavaScript object
PutKey(obj, key, value) ==
  [k \in (DOMAIN obj) \cup {key} |-> IF k = key THEN value ELSE obj[k]]

\* delete obj[key]
DeleteKey(obj, key) == [k \in (DOMAIN obj) \ {key} |-> obj[k]]

----------------------------------------------------------------------------
(* RouterComponent and the location fragment.  A string the code reads     *)
(* character by character is a sequence of characters; the characters that *)
(* no regular expression of the router names ("posts", "id", ...) are      *)
(* written as words.                                                       *)

\* longest location fragment after its '#'
MaxFragment == 4

\* the position of the first character of s at or after position i that is
\* in the set cs, Len(s) + 1 when there is none
FirstOf(s, cs, i) ==
  IF \E j \in i..Len(s) : s[j] \in cs
  THEN CHOOSE j \in i..Len(s) : s[j] \in cs /\ \A k \in i..(j - 1) : s[k] \notin cs
  ELSE Len(s) + 1

\* an object literal with the keys ks has, by inheritance, the properties
\* of Object.prototype
ObjectPrototype == { <<"toString">>, <<"constructor">> }

\* key in routes
InRoutes(routes, key) == key \in DOMAIN routes \cup ObjectPrototype

\* routes.defaultRoute, null when the table has none
DefaultRouteOf(routes) ==
  IF <<"defaultRoute">> \in DOMAIN routes THEN routes[<<"defaultRoute">>] ELSE <<>>

\* window.location.hash.replace(/#([^\\?]*).*/, "$1"), then the default
\* route when the result is empty and the table has a default route
_calculateCurrentPage(hash, routes) ==
  LET from == FirstOf(hash, {"#"}, 1)
      upto == FirstOf(hash, {"\\", "?"}, from + 1)
      currentPage == IF from > Len(hash) THEN hash
                     ELSE SubSeq(hash, 1, from - 1) \o SubSeq(hash, from + 1, upto - 1)
  IN IF Len(currentPage) = 0 /\ DefaultRouteOf(routes) # <<>>
     THEN DefaultRouteOf(routes)
     ELSE currentPage

\* window.location.hash.replace(/#[^\?]*(\?.*)/, "$1"): the fragment from
\* its first '?' on, the whole fragment when no '?' follows a '#'
QueryString(hash) ==
  LET from == FirstOf(hash, {"#"}, 1)
      mark  == FirstOf(hash, {"?"}, from + 1)
  IN IF from > Len(hash) \/ mark > Len(hash) THEN hash
     ELSE SubSeq(hash, 1, from - 1) \o SubSeq(hash, mark, Len(hash))

\* the regular expression "[?&]" + name + "(=([^&#]*)|&|#|$)" matches s at
\* position j; name holds no character that is special in a regular
\* expression
MatchesAt(s, name, j) ==
  /\ s[j] \in {"?", "&"}
  /\ j + Len(name) <= Len(s)
  /\ SubSeq(s, j + 1, j + Len(name)) = name
  /\ \/ j + Len(name) = Len(s)
     \/ s[j + Len(name) + 1] \in {"=", "&", "#"}

\* results[2]: the text captured after '=', undefined (here empty) when the
\* match did not take the '=' alternative
Captured(s, name, j) ==
  IF j + Len(name) < Len(s) /\ s[j + Len(name) + 1] = "="
  THEN SubSeq(s, j + Len(name) + 2, FirstOf(s, {"&", "#"}, j + Len(name) + 2) - 1)
  ELSE <<>>

\* decodeURIComponent(value.replace(/\+/g, " ")); "%20" is the escape
\* sequence of a space
Decoded(value) ==
  [i \in 1..Len(value) |-> IF value[i] \in {"+", "%20"} THEN " " ELSE value[i]]

\* a returned string, and the returned null
Returned(value) == [null |-> FALSE, value |-> value]

ReturnedNull == [null |-> TRUE, value |-> <<>>]

\* RouterComponent.getRouteQueryParam
getRouteQueryParam(hash, name) ==
  LET queryString == QueryString(hash)
  IN IF \A j \in 1..Len(queryString) : ~MatchesAt(queryString, name, j)
     THEN ReturnedNull
     ELSE LET j == CHOOSE j \in 1..Len(queryString) :
                     /\ MatchesAt(queryString, name, j)
                     /\ \A k \in 1..(j - 1) : ~MatchesAt(queryString, name, k)
          IN IF Captured(queryString, name, j) = <<>> THEN Returned(<<>>)
             ELSE Returned(Decoded(Captured(queryString, name, j)))

\* the RouterComponent, its routerModel being the Model "m1"
Routers == {"router"}

\* the page Components of the route table
RoutePages == {"pa", "pb"}

\* a page entry of a route table; login has no title
Page(component, title) == [component |-> component, title |-> title]

\* the routerConfig argument of setRouterConfig:
\* {posts: {component: pa, title: 'Posts'}, login: {component: pb},
\*  defaultRoute: 'posts'}
RouteTable ==
  [key \in { <<"posts">>, <<"login">>, <<"defaultRoute">> } |->
     IF key = <<"posts">> THEN Page("pa", "Posts")
     ELSE IF key = <<"login">> THEN Page("pb", Null)
     ELSE <<"posts">>]

\* r with the fields of extra added
Extend(r, extra) ==
  [f \in DOMAIN r \cup DOMAIN extra |-> IF f \in DOMAIN extra THEN extra[f] ELSE r[f]]

\* the fields the constructor of RouterComponent adds; the router renders in
\* the element "router" and its pages in the element "maincontent"
NewRouter(c) ==
  Extend(NewComponent(c),
         [routes |-> <<>>, pageHtmlId |-> "maincontent", currentComponent |-> Null])

\* the components of the application with a router
RouterComps ==
  [c \in Routers \cup RoutePages |-> IF c \in Routers THEN NewRouter(c) ELSE NewComponent(c)]

----------------------------------------------------------------------------
(* The document as the Components read it.                                 *)

RECURSIVE Descendants(_, _), DescendantsFrom(_, _, _)

\* the descendants of node n in document order
Descendants(h, n) == DescendantsFrom(h, h[n].kids, 1)

DescendantsFrom(h, ks, i) ==
  IF i > Len(ks) THEN <<>>
  ELSE <<ks[i]>> \o Descendants(h, ks[i]) \o DescendantsFrom(h, ks, i + 1)

\* the first of the nodes ns whose id attribute is id, 0 (null) when none
FirstWithId(h, ns, id) ==
  IF \E i \in 1..Len(ns) : IdOf(h, ns[i]) = id
  THEN ns[CHOOSE i \in 1..Len(ns) :
            IdOf(h, ns[i]) = id /\ \A j \in 1..(i - 1) : IdOf(h, ns[j]) # id]
  ELSE 0

\* document.getElementById
getElementById(h, id) == FirstWithId(h, Descendants(h, DocRoot), id)

\* node.querySelector('#' + id)
querySelector(h, n, id) == FirstWithId(h, Descendants(h, n), id)

\* node.getElementsByTagName(tagName), as an array
getElementsByTagName(h, n, tagName) ==
  SelectSeq(Descendants(h, n),
            LAMBDA k : IsElement(h, k) /\ h[k].tag = toLowerCase(tagName))

_getComponentNode(S, c) == getElementById(S.heap, S.comps[c].htmlNodeId)

getChildComponent(S, c, id) ==
  IF id \in DOMAIN S.comps[c].childComponentIds
  THEN S.comps[c].childComponentIds[id]
  ELSE Null

_getChildNode(S, c, childId) == querySelector(S.heap, _getComponentNode(S, c), childId)

\* savedChildNodes: the node of every child Component found in the subtree
_saveChildNodes(S, c) ==
  LET ids == {S.comps[ch].htmlNodeId : ch \in Range(S.comps[c].childComponents)}
  IN [id \in {i \in ids : _getChildNode(S, c, i) # 0} |-> _getChildNode(S, c, id)]

RECURSIVE RestoreFrom(_, _, _, _)

\* the forEach of _restoreChildNodes from child i (0-based) on; with no
\* component node, _getChildNode raises a TypeError
RestoreFrom(S, c, savedChildNodes, i) ==
  IF i >= Len(S.comps[c].childComponents) THEN S
  ELSE IF _getComponentNode(S, c) = 0 THEN Fail(S, "threw", c)
  ELSE
    LET childId == S.comps[At(S.comps[c].childComponents, i)].htmlNodeId
        currentComponentNode == _getChildNode(S, c, childId)
    IN IF /\ currentComponentNode # 0
          /\ childId \in DOMAIN savedChildNodes
          /\ savedChildNodes[childId] # currentComponentNode
       THEN RestoreFrom(
              [S EXCEPT !.heap = replaceChild(@, @[currentComponentNode].parent,
                                              savedChildNodes[childId],
                                              currentComponentNode)],
              c, savedChildNodes, i + 1)
       ELSE RestoreFrom(S, c, savedChildNodes, i + 1)

\* mutant: the saved nodes are not put back
Mutant_restoreChildNodes(S, c, savedChildNodes) == S

_restoreChildNodes(S, c, savedChildNodes) == RestoreFrom(S, c, savedChildNodes, 0)

\* the context object handed to the renderer of a ModelComponent: the
\* properties of its models, a later model overwriting an earlier one
_mergeModelInOneObject(S, c) ==
  IF S.comps[c].models = <<>> THEN Null
  ELSE S.data[S.comps[c].models[Len(S.comps[c].models)]]

\* the markups the renderer of "r" returns for the values of its model:
\* one root followed by white space, one root holding a child tag, two roots
Markups == {"one", "tag", "two"}

Blank == TextShape(" ")

Markup(v) ==
  IF v = "tag"
  THEN << ElemShape("div", <<>>, << ElemShape("t", << <<"id", "k1">> >>, <<>>) >>) >>
  ELSE IF v = "two"
  THEN << ElemShape("p", <<>>, << TextShape("a") >>),
          ElemShape("p", <<>>, << TextShape("b") >>) >>
  ELSE << ElemShape("div", <<>>, << ElemShape("b", <<>>, << TextShape("one") >>) >>),
          Blank >>

\* the empty element a parent's markup holds for the child with that id
Slot(id) == ElemShape("div", << <<"id", id>> >>, <<>>)

\* the markups the renderer of "s" returns for the values of its model: the
\* two slots, the two slots in the other order, other content before the
\* slot of "c1", the slot of "c1" inside a new element, no slot
Layouts == {"both", "swapped", "shifted", "nested", "neither"}

Layout(v) ==
  IF v = "both" THEN << ElemShape("div", <<>>, << Slot("c1"), Slot("c2") >>) >>
  ELSE IF v = "swapped"
  THEN << ElemShape("div", <<>>, << Slot("c2"), Slot("c1") >>) >>
  ELSE IF v = "shifted"
  THEN << ElemShape("div", <<>>,
            << ElemShape("b", <<>>, << TextShape("x") >>), Slot("c1") >>) >>
  ELSE IF v = "nested"
  THEN << ElemShape("div", <<>>,
            << ElemShape("section", <<>>, << Slot("c1") >>), Slot("c2") >>) >>
  ELSE << ElemShape("div", <<>>, << TextShape("none") >>) >>

\* the markups the renderer of "g" returns for the values of its model: no
\* child tag, an element of the tag "V", an element of the tag "U"
TagMarkups == {"plain", "value", "unbound"}

TagMarkup(v) ==
  IF v = "value"
  THEN << ElemShape("div", <<>>, << ElemShape("v", << <<"id", "k2">> >>, <<>>) >>) >>
  ELSE IF v = "unbound"
  THEN << ElemShape("div", <<>>, << ElemShape("u", << <<"id", "k3">> >>, <<>>) >>) >>
  ELSE << ElemShape("div", <<>>, << TextShape("plain") >>) >>

RECURSIVE trim(_)

\* String.trim on markup: the white space at its two ends is dropped
trim(htmlContents) ==
  IF htmlContents = <<>> THEN <<>>
  ELSE IF Head(htmlContents) = Blank THEN trim(Tail(htmlContents))
  ELSE IF htmlContents[Len(htmlContents)] = Blank
  THEN trim(SubSeq(htmlContents, 1, Len(htmlContents) - 1))
  ELSE htmlContents

\* this.renderer(): the root nodes of the markup.  A ModelComponent shows
\* the value of its model and a slot for each child; a Component shows its
\* name
Renderer(S, c) ==
  IF c \in Reentrant THEN Markup(_mergeModelInOneObject(S, c))
  ELSE IF c \in Framing THEN Layout(_mergeModelInOneObject(S, c))
  ELSE IF c \in Tagged THEN TagMarkup(_mergeModelInOneObject(S, c))
  ELSE IF c \in Routers
  THEN << ElemShape("div", <<>>,
            << ElemShape("div", << <<"id", S.comps[c].pageHtmlId>> >>, <<>>) >>) >>
  ELSE IF c \in TagComps
  THEN << ElemShape("span", <<>>, << TextShape(S.comps[c].htmlNodeId) >>) >>
  ELSE IF c \in ModelComps
  THEN << ElemShape("div", <<>>,
            << TextShape(_mergeModelInOneObject(S, c)),
               ElemShape("div", << <<"id", "c1">> >>, <<>>),
               ElemShape("div", << <<"id", "c2">> >>, <<>>) >>) >>
  ELSE << ElemShape("p", <<>>, << TextShape(c) >>) >>

\* newTree.innerHTML = htmlContents: the heap with a dummy element, node
\* Len(h) + 1, holding the parsed nodes
Parse(h, htmlContents) == Alloc(h, ElemShape("div", <<>>, htmlContents), 0)

\* copy id to the root element
CopyId(h, newTree, id) ==
  IF IsElement(h, newTree) /\ getAttribute(h, newTree, "id") = Null
  THEN setAttribute(h, newTree, "id", id)
  ELSE h

\* the callback after TreeComparator.applyPatches returned a
Patched(S, c, savedChildNodes, a) ==
  IF a.threw THEN Fail([S EXCEPT !.heap = a.h], "threw", c)
  ELSE _restoreChildNodes(Log([S EXCEPT !.heap = a.h], "patched", c),
                          c, savedChildNodes)

\* the callback after TreeComparator.diff returned d, or did not return
Compared(S, c, savedChildNodes, h, d) ==
  IF d.div THEN Fail([S EXCEPT !.heap = h], "diverged", c)
  ELSE Patched(S, c, savedChildNodes, applyPatches(h, d.ops))

\* mutant: the callback goes on with the first root of the markup
Mutant_Parsed(S, c, savedChildNodes, currentTree, h, dummy) ==
  IF Len(h[dummy].kids) = 0 THEN Fail([S EXCEPT !.heap = h], "threw", c)
  ELSE Compared(S, c, savedChildNodes,
                CopyId(h, At(h[dummy].kids, 0), S.comps[c].htmlNodeId),
                diff(CopyId(h, At(h[dummy].kids, 0), S.comps[c].htmlNodeId),
                     currentTree, At(h[dummy].kids, 0),
                     DOMAIN S.comps[c].childComponentIds))

\* the callback once the markup is parsed in the dummy element
Parsed(S, c, savedChildNodes, currentTree, h, dummy) ==
  IF Len(h[dummy].kids) # 1 THEN Fail([S EXCEPT !.heap = h], "threw", c)
  ELSE Compared(S, c, savedChildNodes,
                CopyId(h, At(h[dummy].kids, 0), S.comps[c].htmlNodeId),
                diff(CopyId(h, At(h[dummy].kids, 0), S.comps[c].htmlNodeId),
                     currentTree, At(h[dummy].kids, 0),
                     DOMAIN S.comps[c].childComponentIds))

\* the callback render() passes to _doRender
RenderCallback(S, c, htmlContents) ==
  Parsed(S, c, _saveChildNodes(S, c), _getComponentNode(S, c),
         Parse(S.heap, htmlContents), Len(S.heap) + 1)

\* node.querySelectorAll(nodesQuery); the selectors of the model are tag
\* names
querySelectorAll(h, n, nodesQuery) ==
  SelectSeq(Descendants(h, n), LAMBDA k : IsElement(h, k) /\ h[k].tag = nodesQuery)

\* the entry of this._listeners for one element.addEventListener call
Listener(node, eventType, callback) ==
  [node |-> node, eventType |-> eventType, callback |-> callback]

\* _addEventListener once the elements are selected: each gets the listener
\* (an element keeps one listener per event type and callback) and one
\* entry of this._listeners
AddedTo(S, c, elements, eventType, callback) ==
  [S EXCEPT !.attached =
              @ \cup {Listener(e, eventType, callback) : e \in Range(elements)},
            !.comps[c]._listeners =
              @ \o [i \in 1..Len(elements) |->
                      Listener(elements[i], eventType, callback)]]

_addEventListener(S, c, nodesQuery, eventType, callback) ==
  IF S.comps[c].htmlNodeId # Null /\ _getComponentNode(S, c) # 0
  THEN AddedTo(S, c, querySelectorAll(S.heap, _getComponentNode(S, c), nodesQuery),
               eventType, callback)
  ELSE S

\* removeEventListener on every entry of this._listeners
_clearAllEventListeners(S, c) ==
  [S EXCEPT !.attached = @ \ Range(S.comps[c]._listeners),
            !.comps[c]._listeners = <<>>]

\* this.eventListeners[nodesQuery].push({callback, eventType}); the object
\* is kept as the list of its properties in creation order
Registered(eventListeners, eventType, nodesQuery, callback) ==
  IF \E i \in 1..Len(eventListeners) : eventListeners[i].nodesQuery = nodesQuery
  THEN [i \in 1..Len(eventListeners) |->
          IF eventListeners[i].nodesQuery = nodesQuery
          THEN [eventListeners[i] EXCEPT
                  !.specs = Append(@, [callback |-> callback, eventType |-> eventType])]
          ELSE eventListeners[i]]
  ELSE Append(eventListeners,
              [nodesQuery |-> nodesQuery,
               specs |-> << [callback |-> callback, eventType |-> eventType] >>])

\* Component.addEventListener
addEventListener(S, c, eventType, nodesQuery, callback) ==
  _addEventListener(
    [S EXCEPT !.comps[c].eventListeners =
                 Registered(@, eventType, nodesQuery, callback)],
    c, nodesQuery, eventType, callback)

RECURSIVE UpdateFrom(_, _, _, _)

\* the two forEach of _updateEventListeners from property q, entry k on
\* (0-based)
UpdateFrom(S, c, q, k) ==
  IF q >= Len(S.comps[c].eventListeners) THEN S
  ELSE IF k >= Len(At(S.comps[c].eventListeners, q).specs)
  THEN UpdateFrom(S, c, q + 1, 0)
  ELSE UpdateFrom(
         _addEventListener(S, c, At(S.comps[c].eventListeners, q).nodesQuery,
                           At(At(S.comps[c].eventListeners, q).specs, k).eventType,
                           At(At(S.comps[c].eventListeners, q).specs, k).callback),
         c, q, k + 1)

_updateEventListeners(S, c) == UpdateFrom(_clearAllEventListeners(S, c), c, 0, 0)

\* Call(S, method, c, component) is the method call c.method(component)
\* made in program state S, dispatched when it is made
RECURSIVE Call(_, _, _, _)
RECURSIVE StartChildren(_, _, _), StopChildren(_, _, _)

\* what the subclass of c does in its hook ev, once in a call of the
\* application: "r" calls this.render() in beforeRender, in the renderer
\* and in afterRender; a child made for a tag calls render() on its parent
\* "r" in onStart
Override(S, ev, c) ==
  IF c \in Routers
  THEN IF ev = "onStart" THEN Call(S, "_goToCurrentPage", c, Null) ELSE S
  ELSE IF <<ev, c>> \in S.called THEN S
  ELSE IF c \in Reentrant /\ ev \in {"beforeRender", "renderer", "afterRender"}
  THEN Call([S EXCEPT !.called = @ \cup {<<ev, c>>}], "render", c, Null)
  ELSE IF c \in TagComps /\ ev = "onStart"
  THEN Call([S EXCEPT !.called = @ \cup {<<ev, c>>}], "render", "r", Null)
  ELSE S

\* a hook (or the renderer) is called unless an exception left the call
\* before
Hook(S, ev, c) == IF S.fail # "none" THEN S ELSE Override(Log(S, ev, c), ev, c)

\* Component.createChildComponent: new constructorFunction(id) when
\* eval(tagName) is a function, nothing otherwise
createChildComponent(S, tagName, id) ==
  IF tagName \in Constructors /\ Range(Instances) \ DOMAIN S.comps # {}
  THEN Instances[CHOOSE i \in 1..Len(Instances) :
                   /\ Instances[i] \notin DOMAIN S.comps
                   /\ \A j \in 1..(i - 1) : Instances[j] \in DOMAIN S.comps]
  ELSE Null

\* the component constructed by the child factory, after setHtmlNodeId
Constructed(S, component, itemId) ==
  [S EXCEPT !.comps =
     PutKey(@, component, [NewComponent(component) EXCEPT !.htmlNodeId = itemId])]

\* this.childComponentsByTag[childTag].push(component)
Pushed(S, c, childTag, component) ==
  IF S.fail # "none" THEN S
  ELSE [S EXCEPT !.comps[c].childComponentsByTag[childTag] = Append(@, component)]

\* the first loop of _createTagChildComponents for the element with id
\* itemId; eval(tagName) of a name bound to nothing raises a ReferenceError
TagElement(S, c, childTag, itemId) ==
  IF getChildComponent(S, c, itemId) # Null THEN S
  ELSE IF childTag \notin Constructors \cup NotFunctions THEN Fail(S, "threw", c)
  ELSE IF createChildComponent(S, childTag, itemId) = Null THEN S
  ELSE Pushed(Call(Constructed(S, createChildComponent(S, childTag, itemId), itemId),
                   "addChildComponent", c,
                   createChildComponent(S, childTag, itemId)),
              c, childTag, createChildComponent(S, childTag, itemId))

RECURSIVE CreateFrom(_, _, _, _, _), RemoveFrom(_, _, _, _, _), TagsFrom(_, _, _)

\* the first loop from element i (0-based) on; R holds the program state
\* and childIds
CreateFrom(R, c, childTag, childTagElements, i) ==
  IF R.S.fail # "none" \/ i >= Len(childTagElements) THEN R
  ELSE CreateFrom(
         [S |-> TagElement(R.S, c, childTag,
                           getAttribute(R.S.heap, At(childTagElements, i), "id")),
          childIds |-> Append(R.childIds,
                              getAttribute(R.S.heap, At(childTagElements, i), "id"))],
         c, childTag, childTagElements, i + 1)

\* mutant: the removed child stays in the per-tag list
Mutant_Spliced(S, c, childTag, j) == S

\* this.childComponentsByTag[childTag].splice(j, 1)
Spliced(S, c, childTag, j) ==
  IF S.fail # "none" THEN S
  ELSE [S EXCEPT !.comps[c].childComponentsByTag[childTag] = RemoveAt(@, j)]

\* the second loop of _createTagChildComponents from j down to 0
RemoveFrom(S, c, childTag, childIds, j) ==
  IF S.fail # "none" \/ j < 0 THEN S
  ELSE IF S.comps[At(S.comps[c].childComponentsByTag[childTag], j)].htmlNodeId
            \in Range(childIds)
  THEN RemoveFrom(S, c, childTag, childIds, j - 1)
  ELSE IF _getComponentNode(S, c) = 0 THEN Fail(S, "threw", c)
  ELSE IF _getChildNode(S, c,
            S.comps[At(S.comps[c].childComponentsByTag[childTag], j)].htmlNodeId) # 0
  THEN RemoveFrom(S, c, childTag, childIds, j - 1)
  ELSE RemoveFrom(
         Spliced(Call(S, "removeChildComponent", c,
                      At(S.comps[c].childComponentsByTag[childTag], j)),
                 c, childTag, j),
         c, childTag, childIds, j - 1)

\* the second loop, after the first one left R
Reconciled(R, c, childTag) ==
  RemoveFrom(R.S, c, childTag, R.childIds,
             Len(R.S.comps[c].childComponentsByTag[childTag]) - 1)

\* the body of this.childTags.forEach for one tag; with no component node,
\* getElementsByTagName raises a TypeError
OneTag(S, c, childTag) ==
  IF _getComponentNode(S, c) = 0 THEN Fail(S, "threw", c)
  ELSE Reconciled(
         CreateFrom([S |-> S, childIds |-> <<>>], c, childTag,
                    getElementsByTagName(S.heap, _getComponentNode(S, c), childTag),
                    0),
         c, childTag)

\* this.childTags.forEach from tag t (0-based) on
TagsFrom(S, c, t) ==
  IF S.fail # "none" \/ t >= Len(S.comps[c].childTags) THEN S
  ELSE TagsFrom(OneTag(S, c, At(S.comps[c].childTags, t)), c, t + 1)

_createTagChildComponents(S, c) == TagsFrom(S, c, 0)

\* this.rendering = false, the last statement of _doRender
Finished(S, c) ==
  IF S.fail # "none" THEN Mark(S, c, "raised")
  ELSE [S EXCEPT !.comps[c].rendering = FALSE, !.comps[c].sinceStart = "yes"]

\* the end of _doRender, S being the state the callback left
AfterCallback(S, c) ==
  IF S.fail # "none" THEN Mark(S, c, "raised")
  ELSE Finished(Hook(_createTagChildComponents(_updateEventListeners(S, c), c),
                     "afterRender", c), c)

\* this.renderer().trim() and the callback, S being the state the renderer
\* left
Rendered(S, c) ==
  IF S.fail # "none" THEN S
  ELSE RenderCallback(S, c, trim(Renderer(S, c)))

\* mutant: the rendering guard is cleared before the renderer is called
Mutant_DoRender(S, c) ==
  AfterCallback(Rendered(Hook([S EXCEPT !.comps[c].rendering = FALSE],
                              "renderer", c), c), c)

\* _doRender from this.renderer() on
DoRender(S, c) == AfterCallback(Rendered(Hook(S, "renderer", c), c), c)

\* mutant: render() goes on when the component is stopped and returns when
\* it is started
Mutant_render(S, c) ==
  IF S.comps[c].rendering = TRUE THEN Log(Mark(S, c, "dropped"), "render", c)
  ELSE IF \/ ~S.comps[c].stopped
          \/ S.comps[c].htmlNodeId = Null
          \/ _getComponentNode(S, c) = 0
  THEN Log(Mark(S, c, "dropped"), "render", c)
  ELSE DoRender(Hook([Log(S, "render", c) EXCEPT !.comps[c].rendering = TRUE],
                     "beforeRender", c), c)

\* Component.render with _doRender
render(S, c) ==
  IF S.comps[c].rendering = TRUE THEN Log(Mark(S, c, "dropped"), "render", c)
  ELSE IF \/ S.comps[c].stopped
          \/ S.comps[c].htmlNodeId = Null
          \/ _getComponentNode(S, c) = 0
  THEN Log(Mark(S, c, "dropped"), "render", c)
  ELSE DoRender(Hook([Log(S, "render", c) EXCEPT !.comps[c].rendering = TRUE],
                     "beforeRender", c), c)

\* `this`, as ModelComponent.stop passes it to removeObserver
This(c) == [kind |-> "component", of |-> c, serial |-> 0]

\* the n-th function made by this.update.bind(this)
BoundUpdate(c, n) == [kind |-> "bound", of |-> c, serial |-> n]

\* this.childComponents.forEach(child => child.start()) from child i on
StartChildren(S, c, i) ==
  IF S.fail # "none" \/ i >= Len(S.comps[c].childComponents) THEN S
  ELSE StartChildren(Call(S, "start", At(S.comps[c].childComponents, i), Null),
                     c, i + 1)

\* this.childComponents.forEach(child => child.stop()) from child i on
StopChildren(S, c, i) ==
  IF S.fail # "none" \/ i >= Len(S.comps[c].childComponents) THEN S
  ELSE StopChildren(Call(S, "stop", At(S.comps[c].childComponents, i), Null),
                    c, i + 1)

\* this.stopped = false in start()
Started(S, c) ==
  Log([S EXCEPT !.comps[c].stopped = FALSE, !.comps[c].sinceStart = "no"],
      "started", c)

\* mutant: the children are started before the component renders
Mutant_Component_start(S, c) ==
  Hook(IF S.comps[c].stopped
       THEN Call(StartChildren(Started(S, c), c, 0), "render", c, Null)
       ELSE S,
       "onStart", c)

\* Component.start
Component_start(S, c) ==
  Hook(IF S.comps[c].stopped
       THEN StartChildren(Call(Started(S, c), "render", c, Null), c, 0)
       ELSE S,
       "onStart", c)

\* Component.stop
Component_stop(S, c) ==
  Hook(IF S.comps[c].stopped = FALSE
       THEN StopChildren([S EXCEPT !.comps[c].stopped = TRUE,
                                   !.comps[c].sinceStart = "no"], c, 0)
       ELSE S,
       "onStop", c)

RECURSIVE AddObservers(_, _, _), RemoveObservers(_, _, _)

\* this.models.forEach(model => model.addObserver(this.update.bind(this)))
AddObservers(S, c, i) ==
  IF i >= Len(S.comps[c].models) THEN S
  ELSE LET m == At(S.comps[c].models, i)
       IN AddObservers(
            [S EXCEPT !.observers[m] = addObserver(@, BoundUpdate(c, S.binds + 1)),
                      !.binds = @ + 1],
            c, i + 1)

\* this.models.forEach(model => model.removeObserver(this))
RemoveObservers(S, c, i) ==
  IF i >= Len(S.comps[c].models) THEN S
  ELSE LET m == At(S.comps[c].models, i)
       IN RemoveObservers([S EXCEPT !.observers[m] = removeObserver(@, This(c))],
                          c, i + 1)

\* ModelComponent.start
ModelComponent_start(S, c) ==
  Component_start(IF S.comps[c].stopped THEN AddObservers(S, c, 0) ELSE S, c)

\* ModelComponent.stop
ModelComponent_stop(S, c) ==
  Component_stop(IF S.comps[c].stopped = FALSE THEN RemoveObservers(S, c, 0) ELSE S, c)

\* component.start(), dispatched on the class of the component
start(S, c) ==
  IF c \in ModelComps THEN ModelComponent_start(Log(S, "start", c), c)
  ELSE Component_start(Log(S, "start", c), c)

\* component.stop(), dispatched on the class of the component
stop(S, c) ==
  IF c \in ModelComps THEN ModelComponent_stop(Log(S, "stop", c), c)
  ELSE Component_stop(Log(S, "stop", c), c)

\* component.render() unless an exception left the call before
ThenRender(S, component) ==
  IF S.fail # "none" THEN S ELSE Call(S, "render", component, Null)

\* addChildComponent once the child is in childComponents and childComponentIds
Attached(S, c, component) ==
  ThenRender(Call(S, IF S.comps[c].stopped THEN "stop" ELSE "start", component, Null),
             component)

\* Component.addChildComponent
addChildComponent(S, c, component) ==
  Attached([S EXCEPT !.comps[c].childComponents = Append(@, component),
                     !.comps[c].childComponentIds =
                        PutKey(@, S.comps[component].htmlNodeId, component)],
           c, component)

\* mutant: the child stays in childComponentIds
Mutant_Detached(S, c, component, index) ==
  IF S.fail # "none" THEN S
  ELSE Log([S EXCEPT !.comps[c].childComponents = RemoveAt(@, index)],
           "detached", component)

\* removeChildComponent once the child is stopped
Detached(S, c, component, index) ==
  IF S.fail # "none" THEN S
  ELSE Log([S EXCEPT !.comps[c].childComponents = RemoveAt(@, index),
                     !.comps[c].childComponentIds =
                        DeleteKey(@, S.comps[component].htmlNodeId)],
           "detached", component)

\* Component.removeChildComponent
removeChildComponent(S, c, component) ==
  ThenRender(IF IndexOf(S.comps[c].childComponents, component) # -1
             THEN Detached(Call(Log(S, "removeChildComponent", c), "stop",
                                component, Null),
                           c, component,
                           IndexOf(S.comps[c].childComponents, component))
             ELSE Log(S, "removeChildComponent", c),
             c)

\* component.setHtmlNodeId(htmlNodeId) called by the router c; the call
\* raises a TypeError when component is undefined
setHtmlNodeId(S, c, component, htmlNodeId) ==
  IF component = Null THEN Fail(S, "threw", c)
  ELSE [S EXCEPT !.comps[component].htmlNodeId = htmlNodeId]

\* this._routerModel.currentPage
CurrentPage(S, c) == S.data[S.comps[c].models[1]]

\* routes[key] is a page entry; the string under defaultRoute and the
\* functions of Object.prototype have no component and no title
IsPage(routes, key) == key \in DOMAIN routes /\ key # <<"defaultRoute">>

\* routes[key].component
ComponentAt(routes, key) == IF IsPage(routes, key) THEN routes[key].component ELSE Null

\* routes[key].title
TitleAt(routes, key) == IF IsPage(routes, key) THEN routes[key].title ELSE Null

\* document.title = this.routes[currentPage].title when the entry has one
Titled(S, c) ==
  IF TitleAt(S.comps[c].routes, CurrentPage(S, c)) # Null
  THEN [S EXCEPT !.window.title = TitleAt(S.comps[c].routes, CurrentPage(S, c))]
  ELSE S

\* this.currentComponent.stop() when there is a current component
Left(S, c) ==
  IF S.comps[c].currentComponent # Null
  THEN Call(S, "stop", S.comps[c].currentComponent, Null)
  ELSE S

\* mutant: the current component is not removed from the router
Mutant_Removed(S, c) == S

\* this.removeChildComponent(this.currentComponent)
Removed(S, c) ==
  IF S.fail # "none" THEN S
  ELSE Call(S, "removeChildComponent", c, S.comps[c].currentComponent)

\* this.routes[currentPage].component.start()
PageStarted(S, component) ==
  IF S.fail # "none" THEN S ELSE Call(S, "start", component, Null)

\* this.addChildComponent(this.currentComponent) and the start of the page
Entered(S, c, component) ==
  IF S.fail # "none" THEN S
  ELSE PageStarted(Call(S, "addChildComponent", c, component), component)

\* mutant: the page of the entry is not made the current component
Mutant_Selected(S, c, component) ==
  IF S.fail # "none" THEN S
  ELSE Entered(setHtmlNodeId(S, c, component, S.comps[c].pageHtmlId), c, component)

\* this.currentComponent = this.routes[currentPage].component, and the
\* statements that follow
Selected(S, c, component) ==
  IF S.fail # "none" THEN S
  ELSE Entered(setHtmlNodeId([S EXCEPT !.comps[c].currentComponent = component],
                             c, component, S.comps[c].pageHtmlId),
               c, component)

\* RouterComponent._goToCurrentPage
_goToCurrentPage(S, c) ==
  IF CurrentPage(S, c) = <<>> THEN Log(S, "Router: no default page defined", c)
  ELSE IF ~InRoutes(S.comps[c].routes, CurrentPage(S, c))
  THEN Log(S, "Router undefined page", c)
  ELSE Selected(Removed(Left(Titled(Log(S, "_goToCurrentPage", c), c), c), c), c,
                ComponentAt(S.comps[c].routes, CurrentPage(S, c)))

\* RouterComponent.update once super.update(model) is over
RouterComponent_update(S, c) ==
  IF S.fail # "none" THEN S ELSE Call(S, "_goToCurrentPage", c, Null)

\* ModelComponent.update, and RouterComponent.update for the router, whose
\* one model is its routerModel
update(S, c) ==
  IF c \in Routers
  THEN RouterComponent_update(Call(Log(S, "update", c), "render", c, Null), c)
  ELSE Call(Log(S, "update", c), "render", c, Null)

Call(S, method, c, component) ==
  CASE method = "render" -> render(S, c)
    [] method = "start" -> start(S, c)
    [] method = "stop" -> stop(S, c)
    [] method = "addChildComponent" -> addChildComponent(S, c, component)
    [] method = "removeChildComponent" -> removeChildComponent(S, c, component)
    [] method = "_goToCurrentPage" -> _goToCurrentPage(S, c)

----------------------------------------------------------------------------
(* Specification of the Component lifecycle: the application starts and    *)
(* stops Components, adds children to "p" and "c1" and mutates the Model, *)
(* one call at a time.                                                     *)

\* the document the application is loaded in: <body><div id="p"></div></body>
Document ==
  Alloc(<< NodeOf(ElemShape("body", <<>>, <<>>), 0) >>,
        ElemShape("div", << <<"id", "p">> >>, <<>>), DocRoot)

InitComp ==
  /\ heap = Document
  /\ node1 = 0
  /\ node2 = 0
  /\ target = Null
  /\ patches = <<>>
  /\ phase = "idle"
  /\ ModelIdle
  /\ comps = [c \in Comps |-> NewComponent(c)]
  /\ data = [m \in Models |-> "x"]
  /\ binds = 0
  /\ attached = {}
  /\ window = NoWindow
  /\ lastCall = NoCall
  /\ log = <<>>

\* the program state when the application makes a call
Here ==
  [comps |-> comps, heap |-> heap, observers |-> observers, binds |-> binds,
   attached |-> attached, data |-> data, window |-> window, log |-> <<>>,
   fail |-> "none", called |-> {}]

\* the program state when the call is over
Becomes(S) ==
  /\ comps' = S.comps
  /\ heap' = S.heap
  /\ binds' = S.binds
  /\ attached' = S.attached
  /\ window' = S.window
  /\ log' = S.log

\* the call of the application returns, leaving the program state S
Returns(S) ==
  /\ Becomes(S)
  /\ observers' = S.observers

\* the observer call ends, leaving the program state S: it returns to
\* notifyObservers, or its exception leaves set() too
ObserverEnds(S) ==
  /\ Becomes(S)
  /\ IF S.fail = "none" THEN ObserverReturns
     ELSE /\ stack' = <<>>
          /\ returned' = NoReturn
          /\ UNCHANGED <<observers, removed, lastOp>>

\* a call that never returns leaves nothing to run
Hung == log # <<>> /\ log[Len(log)].ev = "diverged"

CallOf(op, c) ==
  [op |-> op, c |-> c, stopped |-> comps[c].stopped,
   children |-> comps[c].childComponents, component |-> Null]

\* control is in application code, outside every callback
AppCanCall ==
  /\ stack = <<>>
  /\ ~Hung
  /\ Len(heap) <= MaxNodes
  /\ Instances[Len(Instances)] \notin DOMAIN comps

\* component.start() called by the application
Start(c) ==
  /\ AppCanCall
  /\ \A i \in 1..Len(comps[c].models) :
       Len(observers[comps[c].models[i]]) < MaxObservers
  /\ Returns(Call(Here, "start", c, Null))
  /\ lastCall' = CallOf("start", c)
  /\ UNCHANGED <<data, stack, returned, removed, lastOp>>
  /\ UNCHANGED <<node1, node2, target, patches, phase>>

\* component.stop() called by the application
Stop(c) ==
  /\ AppCanCall
  /\ Returns(Call(Here, "stop", c, Null))
  /\ lastCall' = CallOf("stop", c)
  /\ UNCHANGED <<data, stack, returned, removed, lastOp>>
  /\ UNCHANGED <<node1, node2, target, patches, phase>>

\* the Components the application gives children to: "p" holds "c1" and
\* "c2", "c1" holds "c2"
Parents == {"p", "c1"}

\* c.addChildComponent(component) called by the application, which gives a
\* Component one parent at most
AddChildComponent(c, component) ==
  /\ AppCanCall
  /\ c # component
  /\ \A d \in DOMAIN comps : component \notin Range(comps[d].childComponents)
  /\ Returns(Call(Here, "addChildComponent", c, component))
  /\ lastCall' = CallOf("addChildComponent", c)
  /\ UNCHANGED <<data, stack, returned, removed, lastOp>>
  /\ UNCHANGED <<node1, node2, target, patches, phase>>

\* model.set(mutator, hint) called by the application
SetData(m, hint) ==
  /\ AppCanCall
  /\ SetFromApplication(m, hint)
  /\ lastCall' = [NoCall EXCEPT !.op = "set"]
  /\ log' = <<>>
  /\ UNCHANGED <<comps, data, binds, attached, window>>
  /\ UNCHANGED diffVars

\* the mutator assigns a value to the model and returns
MutatorReturns ==
  /\ UpdateReturns
  /\ \E v \in Values : data' = [data EXCEPT ![Top(stack).model] = v]
  /\ UNCHANGED <<comps, binds, attached, window, lastCall, log>>
  /\ UNCHANGED diffVars

\* the bound update of a ModelComponent, invoked as observer, runs
BoundUpdateRuns ==
  /\ stack # <<>>
  /\ Top(stack).kind = "observer"
  /\ Top(stack).fn.kind = "bound"
  /\ ObserverEnds(update([Here EXCEPT !.log = log], Top(stack).fn.of))
  /\ UNCHANGED <<data, lastCall>>
  /\ UNCHANGED <<node1, node2, target, patches, phase>>

NextComp ==
  \/ \E c \in Comps : Start(c)
  \/ \E c \in Comps : Stop(c)
  \/ \E c \in Parents, component \in Comps \ ModelComps :
       AddChildComponent(c, component)
  \/ \E m \in SetModels, hint \in Hints : SetData(m, hint)
  \/ MutatorReturns
  \/ BoundUpdateRuns

SpecComp == InitComp /\ [][NextComp]_vars

----------------------------------------------------------------------------
(* Specification of the page that re-renders itself: the application       *)
(* starts, stops and renders the ModelComponent "r" and the Components "a" *)
(* and "n", adds "a" to "r", removes children of "r" and mutates the Model *)
(* whose value selects the markup of "r".                                  *)

\* the document the page is loaded in: <body><div id="r"></div></body>
PageDocument ==
  Alloc(<< NodeOf(ElemShape("body", <<>>, <<>>), 0) >>,
        ElemShape("div", << <<"id", "r">> >>, <<>>), DocRoot)

InitRender ==
  /\ heap = PageDocument
  /\ node1 = 0
  /\ node2 = 0
  /\ target = Null
  /\ patches = <<>>
  /\ phase = "idle"
  /\ ModelIdle
  /\ comps = [c \in PageComps |-> NewComponent(c)]
  /\ data = [m \in Models |-> "one"]
  /\ binds = 0
  /\ attached = {}
  /\ window = NoWindow
  /\ lastCall = NoCall
  /\ log = <<>>

\* component.render() called by the application
Render(c) ==
  /\ AppCanCall
  /\ Returns(Call(Here, "render", c, Null))
  /\ lastCall' = CallOf("render", c)
  /\ UNCHANGED <<data, stack, returned, removed, lastOp>>
  /\ UNCHANGED <<node1, node2, target, patches, phase>>

\* c.removeChildComponent(component) called by the application on a child
RemoveChildComponent(c, component) ==
  /\ AppCanCall
  /\ component \in Range(comps[c].childComponents)
  /\ Returns(Call(Here, "removeChildComponent", c, component))
  /\ lastCall' = [CallOf("removeChildComponent", c) EXCEPT !.component = component]
  /\ UNCHANGED <<data, stack, returned, removed, lastOp>>
  /\ UNCHANGED <<node1, node2, target, patches, phase>>

\* the selectors and the callback the application registers on "r"
Queries == {"b", "span"}

\* the number of listeners the application registers on a component
MaxListeners == 1

Registrations(c) ==
  LET Sum[i \in 0..Len(comps[c].eventListeners)] ==
        IF i = 0 THEN 0 ELSE Sum[i - 1] + Len(comps[c].eventListeners[i].specs)
  IN Sum[Len(comps[c].eventListeners)]

\* c.addEventListener('click', nodesQuery, f) called by the application
AddEventListener(c, nodesQuery) ==
  /\ AppCanCall
  /\ Registrations(c) < MaxListeners
  /\ Returns(addEventListener(Here, c, "click", nodesQuery, "f"))
  /\ lastCall' = CallOf("addEventListener", c)
  /\ UNCHANGED <<data, stack, returned, removed, lastOp>>
  /\ UNCHANGED <<node1, node2, target, patches, phase>>

\* the mutator selects a markup and returns
MarkupChanges ==
  /\ UpdateReturns
  /\ \E v \in Markups : data' = [data EXCEPT ![Top(stack).model] = v]
  /\ UNCHANGED <<comps, binds, attached, window, lastCall, log>>
  /\ UNCHANGED diffVars

NextRender ==
  \/ \E c \in DOMAIN comps : Start(c)
  \/ \E c \in DOMAIN comps : Stop(c)
  \/ \E c \in DOMAIN comps : Render(c)
  \/ \E c \in Reentrant, component \in PageComps \ (Reentrant \cup NoTarget) :
       AddChildComponent(c, component)
  \/ \E c \in Reentrant, component \in DOMAIN comps :
       RemoveChildComponent(c, component)
  \/ \E c \in Reentrant, nodesQuery \in Queries : AddEventListener(c, nodesQuery)
  \/ \E m \in SetModels : SetData(m, "h1")
  \/ MarkupChanges
  \/ BoundUpdateRuns

SpecRender == InitRender /\ [][NextRender]_vars

----------------------------------------------------------------------------
(* Specification of the page with slots: the application gives the         *)
(* ModelComponent "s" the children "c1" and "c2", starts, stops and        *)
(* renders "s", and mutates the Model whose value selects the markup of    *)
(* "s".                                                                    *)

\* the document the page is loaded in: <body><div id="s"></div></body>
SlotDocument ==
  Alloc(<< NodeOf(ElemShape("body", <<>>, <<>>), 0) >>,
        ElemShape("div", << <<"id", "s">> >>, <<>>), DocRoot)

\* the Model is constructed with any of the layouts
InitSlots ==
  /\ heap = SlotDocument
  /\ node1 = 0
  /\ node2 = 0
  /\ target = Null
  /\ patches = <<>>
  /\ phase = "idle"
  /\ ModelIdle
  /\ comps = [c \in SlotComps |-> NewComponent(c)]
  /\ data \in [Models -> Layouts]
  /\ binds = 0
  /\ attached = {}
  /\ window = NoWindow
  /\ lastCall = NoCall
  /\ log = <<>>

\* the mutator selects a layout and returns
LayoutChanges ==
  /\ UpdateReturns
  /\ \E v \in Layouts : data' = [data EXCEPT ![Top(stack).model] = v]
  /\ UNCHANGED <<comps, binds, attached, window, lastCall, log>>
  /\ UNCHANGED diffVars

NextSlots ==
  \/ \E c \in Framing : Start(c)
  \/ \E c \in Framing : Stop(c)
  \/ \E c \in Framing : Render(c)
  \/ \E c \in Framing, component \in SlotComps \ Framing :
       AddChildComponent(c, component)
  \/ \E m \in SetModels : SetData(m, "h1")
  \/ LayoutChanges
  \/ BoundUpdateRuns

SpecSlots == InitSlots /\ [][NextSlots]_vars

----------------------------------------------------------------------------
(* Properties of the Component lifecycle, checked under SpecComp.          *)

\* C9: a stopped ModelComponent has no observer of its own left on any of
\* its models, and no set() invokes its update handler.
C9_StoppedComponentObservesNothing ==
  \A c \in (DOMAIN comps) \cap ModelComps :
    comps[c].stopped =>
      /\ \A i \in 1..Len(comps[c].models) :
           \A k \in 1..Len(observers[comps[c].models[i]]) :
             observers[comps[c].models[i]][k].of # c
      /\ \A j \in 1..Len(stack) :
           stack[j].kind = "observer" => stack[j].fn.of # c

\* what the last call did on component c itself and the start() calls it
\* made on the given children, in order
OwnEvents(c, children) ==
  SelectSeq(log, LAMBDA e :
    \/ /\ e.c = c
       /\ e.ev \in {"started", "render", "beforeRender", "patched", "afterRender",
                    "onStart"}
    \/ /\ e.ev = "start"
       /\ e.c \in Range(children))

RECURSIVE Below(_, _)

\* the Components at most n levels below c in the tree of childComponents
Below(c, n) ==
  IF n = 0 THEN {}
  ELSE Range(comps[c].childComponents)
       \cup UNION {Below(k, n - 1) : k \in Range(comps[c].childComponents)}

\* the children of c, their children, and so on
DescendantComponents(c) == Below(c, Cardinality(DOMAIN comps))

\* C11: stop() on a started component leaves the component and every
\* descendant component stopped, and the onStop hook of every descendant has
\* fired before the onStop hook of the component, which fires last.
C11_StopStopsDescendantsBeforeOnStop ==
  (lastCall.op = "stop" /\ ~lastCall.stopped) =>
    LET c == lastCall.c
    IN /\ comps[c].stopped
       /\ log # <<>>
       /\ log[Len(log)] = Event("onStop", c)
       /\ \A i \in 1..(Len(log) - 1) : log[i] # Event("onStop", c)
       /\ \A d \in DescendantComponents(c) :
            /\ comps[d].stopped
            /\ \E i \in 1..(Len(log) - 1) : log[i] = Event("onStop", d)

\* C12: stop() on a component that is already stopped changes nothing: the
\* stopped flag, the children's states and the child lists of every
\* Component are as before, and the call fires no onStop hook, neither on
\* the component nor on any other.
C12_StopWhenStoppedIsNoOp ==
  [][(stack = <<>> /\ lastCall'.op = "stop" /\ lastCall'.stopped) =>
       /\ comps' = comps
       /\ \A i \in 1..Len(log') : log'[i].ev # "onStop"]_vars

\* how many events of the last call satisfy Test
CountEvents(Test(_)) == Len(SelectSeq(log, Test))

\* C18: addChildComponent(child) appends the child to childComponents and
\* enters it in childComponentIds under its id, leaves the child started
\* exactly when the parent is started, and makes the child render exactly
\* once when the parent is started and not at all when it is stopped.
C18_AddChildRendersChildOnce ==
  lastCall.op = "addChildComponent" =>
    LET c == lastCall.c
        child == comps[c].childComponents[Len(comps[c].childComponents)]
    IN /\ comps[c].childComponents = Append(lastCall.children, child)
       /\ comps[child].htmlNodeId \in DOMAIN comps[c].childComponentIds
       /\ comps[c].childComponentIds[comps[child].htmlNodeId] = child
       /\ comps[c].stopped = lastCall.stopped
       /\ comps[child].stopped = comps[c].stopped
       /\ CountEvents(LAMBDA e : e = Event("beforeRender", child))
            = IF comps[c].stopped THEN 0 ELSE 1

Completed == \A i \in 1..Len(log) : log[i].ev \notin {"threw", "diverged"}

----------------------------------------------------------------------------
(* Properties of render(), checked under SpecRender.                       *)

\* the step is the call op of the application on component c
AppCalls(op, c) == stack = <<>> /\ lastCall'.op = op /\ lastCall'.c = c

\* the step is a call of the bound update of ModelComponent c by a Model
UpdateCalls(c) ==
  /\ stack # <<>>
  /\ Top(stack).kind = "observer"
  /\ Top(stack).fn.kind = "bound"
  /\ Top(stack).fn.of = c
  /\ log' # log

\* the events the step adds to the log
NewEvents == IF stack = <<>> THEN log' ELSE SubSeq(log', Len(log) + 1, Len(log'))

\* the render target of c is in the displayed tree
TargetDisplayed(c) ==
  comps[c].htmlNodeId # Null /\ getElementById(heap, comps[c].htmlNodeId) # 0

\* C13: a render() call (made by the application, or by update() after a
\* model mutation) on a component that is stopped, has no render-target id,
\* or whose render target is not in the displayed tree invokes neither the
\* renderer nor beforeRender / afterRender, leaves the displayed tree, the
\* attached listeners and the children unchanged, and leaves the rendering
\* guard clear.
C13_RenderOfIdleComponentDoesNothing ==
  [][\A c \in DOMAIN comps :
       (/\ AppCalls("render", c) \/ UpdateCalls(c)
        /\ comps[c].stopped \/ ~TargetDisplayed(c))
       => /\ \A i \in 1..Len(NewEvents) :
               NewEvents[i].ev \notin {"renderer", "beforeRender", "afterRender"}
          /\ heap' = heap
          /\ attached' = attached
          /\ comps'[c]._listeners = comps[c]._listeners
          /\ comps'[c].childComponents = comps[c].childComponents
          /\ comps'[c].childComponentIds = comps[c].childComponentIds
          /\ \A d \in DOMAIN comps : comps'[d].stopped = comps[d].stopped
          /\ ~comps'[c].rendering]_vars

\* the position of the first event e of the log after position i, or the
\* position after the last event when there is none
NextEvent(e, i) ==
  IF \E j \in (i + 1)..Len(log) : log[j] = e
  THEN CHOOSE j \in (i + 1)..Len(log) :
         log[j] = e /\ \A k \in (i + 1)..(j - 1) : log[k] # e
  ELSE Len(log) + 1

\* how often event e is in the log between positions i and j
Between(e, i, j) == Cardinality({k \in (i + 1)..(j - 1) : log[k] = e})

\* C15: a render of component c (begun by a render() call that got past the
\* guard, ended by afterRender or by an exception) invokes the renderer of c
\* once and holds no second render of c: the render() calls made on c in
\* the meantime run no render step, and no render step of c runs later
\* without a render() call of its own.
C15_ReentrantRenderIsDropped ==
  \A i \in 1..Len(log) :
    log[i].ev = "beforeRender" =>
      LET c == log[i].c
          end == NextEvent(Event("afterRender", c), i)
      IN /\ i > 1
         /\ log[i - 1] = Event("render", c)
         /\ Between(Event("beforeRender", c), i, end) = 0
         /\ Between(Event("renderer", c), i, end) <= 1
         /\ end <= Len(log) => Between(Event("renderer", c), i, end) = 1

\* a render of "r" ran to its end during which render() was called on "r"
\* by beforeRender, by the renderer and by the onStart of a child made for
\* a tag, and once more by afterRender
C15_Witness ==
  \E i \in 1..Len(log) :
    /\ log[i] = Event("beforeRender", "r")
    /\ NextEvent(Event("afterRender", "r"), i) < Len(log)
    /\ log[i + 1] = Event("render", "r")
    /\ \E k \in (i + 2)..(NextEvent(Event("afterRender", "r"), i) - 2) :
         /\ log[k] = Event("renderer", "r")
         /\ log[k + 1] = Event("render", "r")
    /\ \E k \in (i + 2)..(NextEvent(Event("afterRender", "r"), i) - 2) :
         /\ log[k].ev = "onStart"
         /\ log[k].c \in TagComps
         /\ log[k + 1] = Event("render", "r")
    /\ log[NextEvent(Event("afterRender", "r"), i) + 1] = Event("render", "r")
    /\ ~comps["r"].rendering

\* the step calls render() on component c, started by then: render() or
\* start() called by the application, or update() called by a Model
RenderCalls(c) ==
  \/ (AppCalls("render", c) \/ UpdateCalls(c)) /\ ~comps[c].stopped
  \/ AppCalls("start", c) /\ comps[c].stopped

\* C16: render() on a started component whose markup parses to more than
\* one root node raises and changes no node of the document: no patch is
\* applied and the render does not go on with the first root.
C16_MultiRootRaisesAndPatchesNothing ==
  [][\A c \in DOMAIN comps :
       (/\ RenderCalls(c)
        /\ ~comps[c].rendering
        /\ TargetDisplayed(c)
        /\ Len(trim(Renderer(Here, c))) > 1)
       => /\ log'[Len(log')] = Event("threw", c)
          /\ \A i \in 1..Len(NewEvents) :
               NewEvents[i].ev \notin {"patched", "afterRender"}
          /\ \A n \in 1..Len(heap) : heap'[n] = heap[n]
          /\ ShapeOf(heap', DocRoot) = ShapeOf(heap, DocRoot)]_vars

\* the Model of the started "r", which shows one root, was given the markup
\* with two roots, and the render() made by update() raised
C16_Witness ==
  /\ lastCall.op = "set"
  /\ ~comps["r"].stopped
  /\ comps["r"].sinceStart = "yes"
  /\ data["m1"] = "two"
  /\ log = << Event("update", "r"), Event("render", "r"),
              Event("beforeRender", "r"), Event("render", "r"),
              Event("renderer", "r"), Event("render", "r"), Event("threw", "r") >>

\* the component whose removeChildComponent removed the child at position i
\* of the log
RemovedFrom(i) ==
  log[CHOOSE j \in 1..(i - 1) :
        /\ log[j].ev = "removeChildComponent"
        /\ \A k \in (j + 1)..(i - 1) : log[k].ev # "removeChildComponent"].c

\* a render of component c is in progress at position i of the log
InRender(c, i) ==
  \E j \in 1..(i - 1) :
    /\ log[j] = Event("beforeRender", c)
    /\ \A k \in (j + 1)..i : log[k] # Event("afterRender", c)

\* the child removed at position i of the log is stopped, is neither in
\* childComponents nor in childComponentIds of its parent, and render() was
\* then called on the parent
RemovedAt(i) ==
  /\ comps[log[i].c].stopped
  /\ log[i].c \notin Range(comps[RemovedFrom(i)].childComponents)
  /\ \A id \in DOMAIN comps[RemovedFrom(i)].childComponentIds :
       comps[RemovedFrom(i)].childComponentIds[id] # log[i].c
  /\ i < Len(log)
  /\ log[i + 1] = Event("render", RemovedFrom(i))

\* the render() call at position i of the log ran a render
Rerendered(i) == i < Len(log) /\ log[i + 1] = Event("beforeRender", log[i].c)

MatchingOf(c, q) ==
  UNION {{Listener(e, comps[c].eventListeners[q].specs[k].eventType,
                   comps[c].eventListeners[q].specs[k].callback) :
            e \in Range(querySelectorAll(heap, _getComponentNode(Here, c),
                                         comps[c].eventListeners[q].nodesQuery))} :
         k \in DOMAIN comps[c].eventListeners[q].specs}

MatchingListeners(c) ==
  IF comps[c].htmlNodeId = Null \/ _getComponentNode(Here, c) = 0 THEN {}
  ELSE UNION {MatchingOf(c, q) : q \in DOMAIN comps[c].eventListeners}

\* a render of component c ran to its end in the last call, and no render
\* raised
RenderCompleted(c) ==
  Completed /\ \E i \in 1..Len(log) : log[i] = Event("afterRender", c)

\* C20: after a call in which a render of component c ran to its end, the
\* listeners c has attached are exactly one for every registered (selector,
\* event type, callback) and every element now matching the selector under
\* its render target, and c holds a record of each of them.
C20_ListenersMatchAfterRender ==
  \A c \in Reentrant :
    RenderCompleted(c) =>
      /\ attached = MatchingListeners(c)
      /\ Range(comps[c]._listeners) = attached

----------------------------------------------------------------------------
(* Properties of a parent's render and the slots of its children, checked  *)
(* under SpecSlots.                                                        *)

\* Element.id of a shape
ShapeId(s) ==
  IF s.type = "elem" /\ \E i \in 1..Len(s.attrs) : s.attrs[i][1] = "id"
  THEN s.attrs[CHOOSE i \in 1..Len(s.attrs) : s.attrs[i][1] = "id"][2]
  ELSE ""

RECURSIVE Filled(_, _)

\* the shape s with every element whose id is in saved replaced by the
\* shape saved for that id
Filled(s, saved) ==
  IF ShapeId(s) \in DOMAIN saved THEN saved[ShapeId(s)]
  ELSE [s EXCEPT !.kids = [i \in 1..Len(s.kids) |-> Filled(s.kids[i], saved)]]

\* the root of a markup, given the id of the component when it has none
RootWithId(s, id) ==
  IF ShapeId(s) = "" /\ s.type = "elem"
  THEN [s EXCEPT !.attrs = Append(@, <<"id", id>>)]
  ELSE s

\* the node displayed for the child with render-target id under the target
\* of component c, 0 when there is none
SlotNode(c, id) == _getChildNode(Here, c, id)

\* the ids of the children of c that have a node displayed
DisplayedSlots(c) ==
  {id \in DOMAIN comps[c].childComponentIds : SlotNode(c, id) # 0}

\* the markup the renderer of c returns now holds an element with that id
InMarkup(c, id) ==
  querySelector(Parse(heap, trim(Renderer(Here, c))), Len(heap) + 1, id) # 0

\* the step changes nothing in the subtree of node n but its place
Untouched(n) ==
  /\ \A k \in Range(Descendants(heap, n)) : heap'[k] = heap[k]
  /\ [heap'[n] EXCEPT !.parent = 0] = [heap[n] EXCEPT !.parent = 0]

\* the step is a render() call, made by the application or by update(), on
\* the started component c, which gets past the tests of _doRender
Rerenders(c) ==
  /\ AppCalls("render", c) \/ UpdateCalls(c)
  /\ ~comps[c].stopped
  /\ ~comps[c].rendering
  /\ TargetDisplayed(c)

\* C17: when the started parent re-renders, the node displayed for each of
\* its children is not diffed into; when the new markup holds an element
\* with the child's render-target id, that same node with the same contents
\* is displayed in its place after the render, also when the slot was
\* relocated or recreated by the patch; when it holds none, the node is
\* replaced whole and is out of the document.  The tree displayed after the
\* render is the new markup with the retained nodes in their slots.
C17_ChildSlotsSurviveParentRender ==
  [][\A c \in Framing :
       Rerenders(c) =>
         /\ log'[Len(log')] = Event("afterRender", c)
         /\ \A id \in DisplayedSlots(c) :
              /\ Untouched(SlotNode(c, id))
              /\ InMarkup(c, id) => _getChildNode(Here', c, id) = SlotNode(c, id)
              /\ ~InMarkup(c, id) =>
                   SlotNode(c, id) \notin Range(Descendants(heap', DocRoot))
         /\ ShapeOf(heap', _getComponentNode(Here', c)) =
              Filled(RootWithId(trim(Renderer(Here, c))[1], comps[c].htmlNodeId),
                     [id \in {i \in DisplayedSlots(c) : InMarkup(c, i)} |->
                        ShapeOf(heap, SlotNode(c, id))])]_vars

\* the node n displays what child component ch rendered
ShowsChild(n, ch) ==
  ShapeOf(heap, n) =
    ElemShape("p", << <<"id", ch>> >>, << TextShape(ch) >>)

\* the Model of the started "s" was given the layout with the two slots in
\* the other order; after the render made by update() the nodes the two
\* children had rendered are displayed in the new order, each in place of
\* the empty slot element the patch had created
C17_Witness ==
  /\ lastCall.op = "set"
  /\ stack = <<>>
  /\ data["m1"] = "swapped"
  /\ ~comps["s"].stopped
  /\ log # <<>>
  /\ log[Len(log)] = Event("afterRender", "s")
  /\ heap[_getComponentNode(Here, "s")].kids =
       << SlotNode("s", "c2"), SlotNode("s", "c1") >>
  /\ \A ch \in {"c1", "c2"} :
       /\ ShowsChild(SlotNode("s", ch), ch)
       /\ \E k \in (SlotNode("s", ch) + 1)..Len(heap) :
            /\ heap[k].parent = 0
            /\ ShapeOf(heap, k) = Slot(ch)

----------------------------------------------------------------------------
(* Termination of TreeComparator.diff, checked under SpecDiff.             *)

\* C28: diff returns an operation list for every pair of trees, in
\* particular for every reordering of uniquely keyed children: no call of
\* diff fails to return.
C28_DiffTerminates == phase # "diverged"

----------------------------------------------------------------------------
(* The swap-nodes operation, checked under SpecDiff on the operation lists *)
(* that hold one swap-nodes operation.                                     *)

\* applyPatches runs on an operation list that is one swap-nodes operation
OneSwapApplied ==
  /\ phase = "diffed"
  /\ phase' # "diffed"
  /\ Len(patches) = 1
  /\ patches[1].mode = "swap-nodes"

\* heap h2 is heap h with the siblings a and b exchanged: each at the
\* position the other had, every other sibling at its position, the parent
\* with the node identities it had, every child unchanged, and every node
\* created since out of the tree
Exchanged(h, h2, a, b) ==
  LET p    == h[a].parent
      posA == IndexOf(h[p].kids, a)
      posB == IndexOf(h[p].kids, b)
  IN /\ Len(h2[p].kids) = Len(h[p].kids)
     /\ At(h2[p].kids, posA) = b
     /\ At(h2[p].kids, posB) = a
     /\ \A i \in 0..(Len(h[p].kids) - 1) :
          i \notin {posA, posB} => At(h2[p].kids, i) = At(h[p].kids, i)
     /\ Range(h2[p].kids) = Range(h[p].kids)
     /\ \A n \in Range(h[p].kids) :
          /\ h2[n].parent = p
          /\ ShapeOf(h2, n) = ShapeOf(h, n)
     /\ \A n \in (Len(h) + 1)..Len(h2) :
          /\ h2[n].parent = 0
          /\ \A k \in 1..Len(h2) : n \notin Range(h2[k].kids)

\* C30: applying a swap-nodes operation to two siblings completes, puts each
\* of the two nodes at the position the other had, leaves every other sibling
\* at its position, leaves the parent with the node identities it had, both
\* swapped nodes still children of it and unchanged, and leaves the helper
\* element created for the swap out of the tree.  This holds for the
\* operation applied by applyPatches and for _swapElements on any two
\* children of every source tree (taken once, where the target is its
\* copy), in either order.
C30_SwapExchangesSiblings ==
  /\ [](phase = "input" /\ ShapeOf(heap, node1) = target =>
          \A a, b \in Range(heap[node1].kids) :
            a # b => /\ ~_swapElements(heap, a, b).threw
                     /\ Exchanged(heap, _swapElements(heap, a, b).h, a, b))
  /\ [][OneSwapApplied =>
          /\ phase' = "applied"
          /\ heap[patches[1].toReplace].parent = heap[patches[1].replacement].parent
          /\ Exchanged(heap, heap', patches[1].toReplace, patches[1].replacement)]_vars

\* the first and the last of three siblings were swapped: the nodes keyed a
\* and c changed places around the node keyed b, which stayed
C30_Witness ==
  /\ phase = "applied"
  /\ Len(patches) = 1
  /\ patches[1].mode = "swap-nodes"
  /\ heap[patches[1].toReplace].parent = node1
  /\ heap[patches[1].replacement].parent = node1
  /\ SourceKeys = <<"c", "b", "a">>
  /\ getAttribute(heap, patches[1].toReplace, "key") = "a"
  /\ getAttribute(heap, patches[1].replacement, "key") = "c"

----------------------------------------------------------------------------
(* Specification of the page whose child tags have no constructor: the     *)
(* application starts, stops and renders the ModelComponent "g" and        *)
(* mutates the Model whose value selects the markup of "g".                *)

\* the document the page is loaded in: <body><div id="g"></div></body>
TagDocument ==
  Alloc(<< NodeOf(ElemShape("body", <<>>, <<>>), 0) >>,
        ElemShape("div", << <<"id", "g">> >>, <<>>), DocRoot)

\* the Model is constructed with any of the markups
InitTags ==
  /\ heap = TagDocument
  /\ node1 = 0
  /\ node2 = 0
  /\ target = Null
  /\ patches = <<>>
  /\ phase = "idle"
  /\ ModelIdle
  /\ comps = [c \in Tagged |-> NewComponent(c)]
  /\ data \in [Models -> TagMarkups]
  /\ binds = 0
  /\ attached = {}
  /\ window = NoWindow
  /\ lastCall = NoCall
  /\ log = <<>>

\* the mutator selects a markup of "g" and returns
TagMarkupChanges ==
  /\ UpdateReturns
  /\ \E v \in TagMarkups : data' = [data EXCEPT ![Top(stack).model] = v]
  /\ UNCHANGED <<comps, binds, attached, window, lastCall, log>>
  /\ UNCHANGED diffVars

NextTags ==
  \/ \E c \in Tagged : Start(c)
  \/ \E c \in Tagged : Stop(c)
  \/ \E c \in Tagged : Render(c)
  \/ \E m \in SetModels : SetData(m, "h1")
  \/ TagMarkupChanges
  \/ BoundUpdateRuns

SpecTags == InitTags /\ [][NextTags]_vars

----------------------------------------------------------------------------
(* The constructor of ModelComponent and the values it is given as model   *)
(* argument.  A JavaScript value is a record of its kind and its value; an *)
(* array also has its items.                                               *)

\* longest array given as model argument
MaxModelList == 2

JsValue(kind, val) == [kind |-> kind, val |-> val, items |-> <<>>]

JsArray(items) == [kind |-> "Array", val |-> Null, items |-> items]

\* an instance of Model, or of a class that extends Model
ModelValues == {JsValue("Model", m) : m \in Models}

\* the values that are no array: undefined, null, booleans, numbers,
\* strings, a plain object, a function, and the instances of Model
Scalars ==
  { JsValue("undefined", Null), JsValue("null", Null),
    JsValue("boolean", "false"), JsValue("boolean", "true"),
    JsValue("number", "0"), JsValue("number", "NaN"), JsValue("number", "1"),
    JsValue("string", ""), JsValue("string", "m1"),
    JsValue("object", "{}"), JsValue("function", "f") } \cup ModelValues

\* the model arguments: a value, or an array of values
ModelArguments ==
  Scalars \cup {JsArray(items) : items \in SeqsUpTo(Scalars, MaxModelList)}

\* the falsy values: !v is true
Falsy(v) ==
  \/ v.kind \in {"undefined", "null"}
  \/ v.kind = "boolean" /\ v.val = "false"
  \/ v.kind = "number" /\ v.val \in {"0", "NaN"}
  \/ v.kind = "string" /\ v.val = ""

\* v instanceof Model
InstanceOfModel(v) == v.kind = "Model"

\* v instanceof Array
InstanceOfArray(v) == v.kind = "Array"

\* ModelComponent.constructor after super(): the models field it sets, or
\* the exception it raises
ModelComponent_constructor(model) ==
  IF Falsy(model) THEN [threw |-> FALSE, models |-> <<>>]
  ELSE IF InstanceOfModel(model) THEN [threw |-> FALSE, models |-> << model.val >>]
  ELSE IF InstanceOfArray(model)
  THEN IF \E i \in 1..Len(model.items) : ~InstanceOfModel(model.items[i])
       THEN [threw |-> TRUE, models |-> <<>>]
       ELSE [threw |-> FALSE,
             models |-> [i \in 1..Len(model.items) |-> model.items[i].val]]
  ELSE [threw |-> TRUE, models |-> <<>>]

----------------------------------------------------------------------------
(* Specification of the construction of a ModelComponent: the application  *)
(* calls new ModelComponent(modelRenderer, model, "p") with any of the     *)
(* model arguments.                                                        *)

InitConstruct ==
  /\ heap = Document
  /\ node1 = 0
  /\ node2 = 0
  /\ target = Null
  /\ patches = <<>>
  /\ phase = "idle"
  /\ ModelIdle
  /\ CompIdle

\* new ModelComponent(modelRenderer, model, c): the component exists when
\* the constructor returns
Construct(c, model) ==
  /\ c \notin DOMAIN comps
  /\ lastCall = NoCall
  /\ comps' = IF ModelComponent_constructor(model).threw THEN comps
              ELSE PutKey(comps, c,
                     [NewComponent(c) EXCEPT
                        !.models = ModelComponent_constructor(model).models])
  /\ log' = IF ModelComponent_constructor(model).threw
            THEN << Event("constructor", c), Event("threw", c) >>
            ELSE << Event("constructor", c) >>
  /\ lastCall' = [NoCall EXCEPT !.op = "new ModelComponent", !.c = c,
                                !.component = model]
  /\ UNCHANGED <<data, binds, attached, window>>
  /\ UNCHANGED diffVars
  /\ UNCHANGED modelVars

NextConstruct == \E model \in ModelArguments : Construct("p", model)

SpecConstruct == InitConstruct /\ [][NextConstruct]_vars

----------------------------------------------------------------------------
(* Specification of the router and the fragment: the page is loaded with   *)
(* any fragment, the router is constructed, and the application sets the   *)
(* route table and asks for query parameters.                              *)

\* the characters of a fragment after its '#'
FragmentChars == {"?", "&", "=", "\\", "+", "%20", "id", "posts"}

\* location.hash: empty, or '#' and the fragment
Fragments ==
  {<<>>} \cup {<<"#">> \o f : f \in SeqsUpTo(FragmentChars, MaxFragment) \ {<<>>}}

\* the names the application asks for
ParamNames == { <<"id">>, <<"posts">> }

\* the document the page is loaded in: <body><div id="router"></div></body>
RouterDocument ==
  Alloc(<< NodeOf(ElemShape("body", <<>>, <<>>), 0) >>,
        ElemShape("div", << <<"id", "router">> >>, <<>>), DocRoot)

\* the state after new RouterComponent('router', modelRenderer,
\* 'maincontent') on a page loaded with the fragment hash
Routed(hash) ==
  /\ heap = RouterDocument
  /\ node1 = 0
  /\ node2 = 0
  /\ target = Null
  /\ patches = <<>>
  /\ phase = "idle"
  /\ ModelIdle
  /\ comps = RouterComps
  /\ data = [m \in Models |-> _calculateCurrentPage(hash, <<>>)]
  /\ binds = 0
  /\ attached = {}
  /\ window = [hash |-> hash, title |-> ""]
  /\ lastCall = NoCall
  /\ log = <<>>

InitFragment == \E hash \in Fragments : Routed(hash)

\* the record of a call on the router and of what it returned
RouterCall(op, c, argument, result) ==
  Extend([NoCall EXCEPT !.op = op, !.c = c, !.component = argument],
         [result |-> result])

\* router.setRouterConfig(routerConfig)
SetRouterConfig(c, routerConfig) ==
  /\ stack = <<>>
  /\ comps[c].routes = <<>>
  /\ comps' = [comps EXCEPT ![c].routes = routerConfig]
  /\ data' = [data EXCEPT ![comps[c].models[1]] =
                _calculateCurrentPage(window.hash, routerConfig)]
  /\ lastCall' = RouterCall("setRouterConfig", c, Null, Null)
  /\ log' = <<>>
  /\ UNCHANGED <<heap, binds, attached, window>>
  /\ UNCHANGED <<node1, node2, target, patches, phase>>
  /\ UNCHANGED modelVars

\* router.getRouteQueryParam(name)
GetRouteQueryParam(c, name) ==
  /\ stack = <<>>
  /\ lastCall' = RouterCall("getRouteQueryParam", c, name,
                            getRouteQueryParam(window.hash, name))
  /\ log' = <<>>
  /\ UNCHANGED <<comps, data, heap, binds, attached, window>>
  /\ UNCHANGED <<node1, node2, target, patches, phase>>
  /\ UNCHANGED modelVars

NextFragment ==
  \/ \E c \in Routers : SetRouterConfig(c, RouteTable)
  \/ \E c \in Routers, name \in ParamNames : GetRouteQueryParam(c, name)

SpecFragment == InitFragment /\ [][NextFragment]_vars

----------------------------------------------------------------------------
(* Specification of the router: the page is loaded with a fragment, the    *)
(* application sets the route table, starts and stops the router, and the  *)
(* location fragment changes.                                              *)

\* the nodes the document may hold when the fragment changes
MaxRouterNodes == 30

\* the fragments the location takes: none, the pages, a page with a query,
\* a key the table does not hold, and the keys of the table that are no
\* pages
RouterFragments ==
  { <<>>, <<"#", "posts">>, <<"#", "login">>,
    <<"#", "posts", "?", "id", "=", "id">>, <<"#", "id">>,
    <<"#", "defaultRoute">>, <<"#", "toString">> }

InitRouter == \E hash \in RouterFragments : Routed(hash)

\* the hashchange event and its listener up to the call of the mutator:
\* console.log("Router: page changed"); this._routerModel.set(...)
HashChange(c, fragment) ==
  /\ stack = <<>>
  /\ ~Hung
  /\ Len(heap) <= MaxRouterNodes
  /\ fragment # window.hash
  /\ window' = [window EXCEPT !.hash = fragment]
  /\ SetFromApplication(comps[c].models[1], Null)
  /\ lastCall' = RouterCall("hashchange", c, fragment, Null)
  /\ log' = << Event("Router: page changed", c) >>
  /\ UNCHANGED <<comps, data, binds, attached>>
  /\ UNCHANGED diffVars

\* the mutator of the listener assigns the current page and returns
HashMutatorReturns(c) ==
  /\ UpdateReturns
  /\ Top(stack).model = comps[c].models[1]
  /\ data' = [data EXCEPT ![Top(stack).model] =
                _calculateCurrentPage(window.hash, comps[c].routes)]
  /\ UNCHANGED <<comps, binds, attached, window, lastCall, log>>
  /\ UNCHANGED diffVars

NextRouter ==
  \/ \E c \in Routers : SetRouterConfig(c, RouteTable)
  \/ \E c \in Routers : Start(c)
  \/ \E c \in Routers : Stop(c)
  \/ \E c \in Routers, fragment \in RouterFragments : HashChange(c, fragment)
  \/ \E c \in Routers : HashMutatorReturns(c)
  \/ BoundUpdateRuns

SpecRouter == InitRouter /\ [][NextRouter]_vars

----------------------------------------------------------------------------
(* Specification of the children of a Component: the application adds any  *)
(* Component to "p" and removes any Component from it, children or not, as *)
(* often as it likes, and starts and stops "p".                            *)

\* the longest child list the application builds
MaxChildren == 3

\* "p" and the Components given to it: "c1", "c2" and "d", which has the
\* render-target id of "c1"
ChildComps == {"p", "c1", "c2", "d"}

InitChildren ==
  /\ heap = Document
  /\ node1 = 0
  /\ node2 = 0
  /\ target = Null
  /\ patches = <<>>
  /\ phase = "idle"
  /\ ModelIdle
  /\ comps = [c \in ChildComps |-> NewComponent(c)]
  /\ data = [m \in Models |-> "x"]
  /\ binds = 0
  /\ attached = {}
  /\ window = NoWindow
  /\ lastCall = NoCall
  /\ log = <<>>

\* c.addChildComponent(component) called by the application with any
\* Component
AddAnyChild(c, component) ==
  /\ AppCanCall
  /\ Len(comps[c].childComponents) < MaxChildren
  /\ Returns(Call(Here, "addChildComponent", c, component))
  /\ lastCall' = [CallOf("addChildComponent", c) EXCEPT !.component = component]
  /\ UNCHANGED <<data, stack, returned, removed, lastOp>>
  /\ UNCHANGED <<node1, node2, target, patches, phase>>

\* c.removeChildComponent(component) called by the application with any
\* Component, a child of c or not
RemoveAnyChild(c, component) ==
  /\ AppCanCall
  /\ Returns(Call(Here, "removeChildComponent", c, component))
  /\ lastCall' = [CallOf("removeChildComponent", c) EXCEPT !.component = component]
  /\ UNCHANGED <<data, stack, returned, removed, lastOp>>
  /\ UNCHANGED <<node1, node2, target, patches, phase>>

NextChildren ==
  \/ \E c \in ChildComps \cap ModelComps : Start(c)
  \/ \E c \in ChildComps \cap ModelComps : Stop(c)
  \/ \E c \in ChildComps \cap ModelComps, component \in ChildComps \ ModelComps :
       AddAnyChild(c, component)
  \/ \E c \in ChildComps \cap ModelComps, component \in ChildComps \ ModelComps :
       RemoveAnyChild(c, component)

SpecChildren == InitChildren /\ [][NextChildren]_vars

----------------------------------------------------------------------------
(* Specification of MainComponent.start: the main component is the router  *)
(* of the application with its route table set.  start() asks UserService  *)
(* to log in with the credentials of the session storage and calls         *)
(* super.start() in the callback given to then().  The window holds, next  *)
(* to hash and title, the session storage, the request to the backend, the *)
(* promises of login and loginWithSessionData, the queue of promise jobs    *)
(* and the currentUser of the UserModel, which has no observer before the   *)
(* router is started.                                                       *)

\* the states of a promise
Pending == [state |-> "pending", value |-> Null]

Fulfilled(value) == [state |-> "fulfilled", value |-> value]

Rejected == [state |-> "rejected", value |-> Null]

\* no promise yet
NoPromise == [state |-> "none", value |-> Null]

\* the job a settled promise queues for the reaction registered on it
Job(promise, settled) == [promise |-> promise, settled |-> settled]

\* what the session storage may hold when the page is loaded
SessionItems == {"login", "pass"}

\* the state after new MainComponent() on a page loaded with the fragment
\* hash and the session storage items
MainConstructed(hash, items) ==
  /\ heap = RouterDocument
  /\ node1 = 0
  /\ node2 = 0
  /\ target = Null
  /\ patches = <<>>
  /\ phase = "idle"
  /\ ModelIdle
  /\ comps = [RouterComps EXCEPT !["router"].routes = RouteTable]
  /\ data = [m \in Models |-> _calculateCurrentPage(hash, RouteTable)]
  /\ binds = 0
  /\ attached = {}
  /\ window = [hash |-> hash, title |-> "", sessionStorage |-> items,
               request |-> "none", login |-> "none", session |-> NoPromise,
               jobs |-> <<>>, start |-> "not called", currentUser |-> Null]
  /\ lastCall = NoCall
  /\ log = <<>>

InitMain ==
  \E hash \in RouterFragments, items \in SUBSET SessionItems :
     MainConstructed(hash, items)

\* UserService.login(login, pass) up to its return: the request is sent
login(w) == [w EXCEPT !.request = "sent", !.login = "pending"]

\* UserService.loginWithSessionData() up to its return
loginWithSessionData(w) ==
  IF "login" \in w.sessionStorage /\ "pass" \in w.sessionStorage
  THEN [login(w) EXCEPT !.session = Pending]
  ELSE [w EXCEPT !.session = Fulfilled(Null)]

\* promise.then(callback) on the promise of loginWithSessionData: a promise
\* that is settled queues the job at once
Then(w) ==
  IF w.session.state = "pending" THEN w
  ELSE [w EXCEPT !.jobs = Append(@, Job("session", w.session.state))]

\* MainComponent.start() called by the application
MainComponent_start(c) ==
  /\ stack = <<>>
  /\ window.start = "not called"
  /\ window' = [Then(loginWithSessionData(window)) EXCEPT !.start = "called"]
  /\ lastCall' = CallOf("start", c)
  /\ log' = <<>>
  /\ UNCHANGED <<comps, heap, binds, attached, data>>
  /\ UNCHANGED <<node1, node2, target, patches, phase>>
  /\ UNCHANGED modelVars

\* the backend answers the request of login: the callback of then stores the
\* credentials and resolves, the callback of fail removes them and rejects
BackendAnswers(accepted) ==
  /\ stack = <<>>
  /\ window.jobs = <<>>
  /\ window.request = "sent"
  /\ window' =
       [window EXCEPT
          !.request = "answered",
          !.sessionStorage = IF accepted THEN SessionItems ELSE {},
          !.login = IF accepted THEN "fulfilled" ELSE "rejected",
          !.jobs = << Job("login", IF accepted THEN "fulfilled" ELSE "rejected") >>]
  /\ UNCHANGED <<comps, heap, binds, attached, data, lastCall, log>>
  /\ UNCHANGED <<node1, node2, target, patches, phase>>
  /\ UNCHANGED modelVars

\* the window once the promise of loginWithSessionData is settled
SessionSettled(w, promise) ==
  [w EXCEPT !.session = promise,
            !.jobs = Append(@, Job("session", promise.state))]

\* the window after the job of login(...).then(() => resolve(...)), which
\* settles the promise that catch is called on
LoginThen(w, settled) ==
  IF settled = "fulfilled"
  THEN [SessionSettled(w, Fulfilled(IF "login" \in w.sessionStorage
                                    THEN "login" ELSE Null))
          EXCEPT !.jobs = Append(@, Job("login.then", "fulfilled"))]
  ELSE [w EXCEPT !.jobs = Append(@, Job("login.then", "rejected"))]

\* the window after the job of .catch(() => reject())
LoginCatch(w, settled) ==
  IF settled = "rejected" THEN SessionSettled(w, Rejected) ELSE w

\* userModel.setLoggeduser(logged) when logged != null
setLoggeduser(w, logged) ==
  IF logged # Null THEN [w EXCEPT !.currentUser = logged] ELSE w

\* the callback that MainComponent.start gives to then, which is not
\* called when the promise is rejected
SessionThen(S, c, settled) ==
  IF settled = "fulfilled"
  THEN Call([S EXCEPT !.window = [setLoggeduser(@, @.session.value)
                                    EXCEPT !.start = "super.start()"]],
            "start", c, Null)
  ELSE S

\* the program state after the job at the head of the queue
JobDone(S, c, job) ==
  IF job.promise = "login"
  THEN [S EXCEPT !.window = LoginThen(@, job.settled)]
  ELSE IF job.promise = "login.then"
  THEN [S EXCEPT !.window = LoginCatch(@, job.settled)]
  ELSE SessionThen(S, c, job.settled)

\* the record of the promise job that ran last
JobCall(c, job) ==
  [op |-> "job", c |-> c, stopped |-> comps[c].stopped,
   children |-> comps[c].childComponents, component |-> Null, job |-> job]

\* the event loop takes the promise job at the head of the queue
JobTaken(c) ==
  /\ stack = <<>>
  /\ window.jobs # <<>>
  /\ lastCall' = JobCall(c, Head(window.jobs))

\* the event loop runs the promise job at the head of the queue
RunJob(c) ==
  /\ JobTaken(c)
  /\ Returns(JobDone([Here EXCEPT !.window.jobs = Tail(@)], c, Head(window.jobs)))
  /\ UNCHANGED <<data, stack, returned, removed, lastOp>>
  /\ UNCHANGED <<node1, node2, target, patches, phase>>

NextMain ==
  \/ \E c \in Routers : MainComponent_start(c)
  \/ \E accepted \in BOOLEAN : BackendAnswers(accepted)
  \/ \E c \in Routers : RunJob(c)

SpecMain == InitMain /\ [][NextMain]_vars

\* the event loop runs every queued job, and the backend answers every
\* request.  The steps of SpecMain that take a job are its RunJob steps, and
\* a job can be taken exactly when RunJob can run it: the fairness of RunJob
\* is stated on JobTaken, the part of it that says which job is run.
SpecMainFair ==
  /\ SpecMain
  /\ \A c \in Routers : WF_lastCall(JobTaken(c))
  /\ WF_vars(\E accepted \in BOOLEAN : BackendAnswers(accepted))

----------------------------------------------------------------------------
(* Specification of diff with the compare policy of Component.render: the  *)
(* displayed tree of the component "s" is compared with a new tree, by the *)
(* policy that reads the childComponentIds of "s", which holds "c1" or     *)
(* nothing.  The children of the two roots are slots of "c1", empty or     *)
(* rendered, at the top or inside an element, and other content.           *)

\* what the child "c1" has rendered in its slot
RenderedSlot(id) == ElemShape("p", << <<"id", id>> >>, << TextShape(id) >>)

PolicyKinds ==
  { Slot("c1"),
    RenderedSlot("c1"),
    ElemShape("section", <<>>, << Slot("c1") >>),
    ElemShape("section", <<>>, << RenderedSlot("c1") >>),
    ElemShape("b", <<>>, << TextShape("x") >>) }

PolicyTrees ==
  {ElemShape("div", << <<"id", "s">> >>, ks) : ks \in SeqsUpTo(PolicyKinds, MaxMixed)}

\* the components after "s" was given the children cs, all stopped
Holding(cs) ==
  [c \in SlotComps |->
     IF c \in Framing
     THEN [NewComponent(c) EXCEPT !.childComponents = cs,
                                  !.childComponentIds = [id \in Range(cs) |-> id]]
     ELSE NewComponent(c)]

InitPolicy ==
  \E a \in PolicyTrees, b \in PolicyTrees, cs \in {<<>>, <<"c1">>} :
    /\ heap = TwoTrees(a, b).h
    /\ node1 = TwoTrees(a, b).node1
    /\ node2 = TwoTrees(a, b).node2
    /\ target = b
    /\ patches = <<>>
    /\ phase = "input"
    /\ ModelIdle
    /\ comps = Holding(cs)
    /\ data = [m \in Models |-> "both"]
    /\ binds = 0
    /\ attached = {}
    /\ window = NoWindow
    /\ lastCall = NoCall
    /\ log = <<>>

\* patches = TreeComparator.diff(node1, node2, comparePolicy), the policy
\* being the callback of the render of "s"
DiffWithPolicy ==
  /\ phase = "input"
  /\ LET r == diff(heap, node1, node2, DOMAIN comps["s"].childComponentIds)
     IN /\ patches' = r.ops
        /\ phase' = IF r.div THEN "diverged" ELSE "diffed"
  /\ UNCHANGED <<heap, node1, node2, target>>
  /\ UNCHANGED modelVars
  /\ UNCHANGED compVars

NextPolicy == DiffWithPolicy \/ ApplyPatches

SpecPolicy == InitPolicy /\ [][NextPolicy]_vars

----------------------------------------------------------------------------
(* The compare policy in diff, checked under SpecPolicy.                   *)

\* the answer of the policy of "s" for the pair
Answer(n1, n2) == comparePolicy(heap, DOMAIN comps["s"].childComponentIds, n1, n2)

RECURSIVE Descended(_, _)

\* the node pairs a diff of n1 and n2 that honours the policy is called on:
\* the pair itself and, when the policy answers DIFF and the two nodes are of
\* one kind, tag and text, the pairs of their children at the same position
\* (the children of the trees of this specification carry no key, and a text
\* never meets an element)
Descended(n1, n2) ==
  {<<n1, n2>>} \cup
  IF /\ Answer(n1, n2) = "DIFF"
     /\ heap[n1].tag = heap[n2].tag
     /\ heap[n1].type = heap[n2].type
     /\ (heap[n1].value = Null \/ heap[n1].value = heap[n2].value)
  THEN UNION {Descended(heap[n1].kids[i], heap[n2].kids[i]) :
                i \in 1..(IF Len(heap[n1].kids) < Len(heap[n2].kids)
                          THEN Len(heap[n1].kids) ELSE Len(heap[n2].kids))}
  ELSE {}

\* the node n and the nodes below it
Subtree(n) == {n} \cup Range(Descendants(heap, n))

\* the returned operations that name a node of the pair or a node below it
OpsOn(n1, n2) ==
  {i \in 1..Len(patches) :
     \/ patches[i].toReplace \in Subtree(n1)
     \/ patches[i].replacement \in Subtree(n2)}

\* C29: for every node pair the diff descends into, the policy decides
\* before the pair is compared: when it answers SKIP the returned list holds
\* no operation for the pair or for anything below it, whatever the two nodes
\* are; when it answers REPLACE the list holds exactly one operation for the
\* pair, the replacement of the first subtree by the second, and none for
\* anything below it.
C29_PolicyDecidesBeforeComparing ==
  phase = "diffed" =>
    \A pair \in Descended(node1, node2) :
      /\ Answer(pair[1], pair[2]) = "SKIP" => OpsOn(pair[1], pair[2]) = {}
      /\ Answer(pair[1], pair[2]) = "REPLACE" =>
           \E i \in 1..Len(patches) :
             /\ OpsOn(pair[1], pair[2]) = {i}
             /\ patches[i] = ReplacePatch(pair[1], pair[2])

\* the policy answered SKIP for a rendered slot met by its empty slot inside
\* a section, two nodes that differ in tag and children, and REPLACE for a
\* rendered slot met by other content, and the list holds the one operation
C29_Witness ==
  /\ phase = "diffed"
  /\ Len(heap[node1].kids) = 2
  /\ Len(heap[node2].kids) = 2
  /\ LET s1 == heap[node1].kids[1]
         s2 == heap[node2].kids[1]
     IN /\ heap[s1].tag = "section" /\ heap[s2].tag = "section"
        /\ ShapeOf(heap, heap[s1].kids[1]) = RenderedSlot("c1")
        /\ ShapeOf(heap, heap[s2].kids[1]) = Slot("c1")
        /\ Answer(heap[s1].kids[1], heap[s2].kids[1]) = "SKIP"
  /\ Answer(heap[node1].kids[2], heap[node2].kids[2]) = "REPLACE"
  /\ patches = << ReplacePatch(heap[node1].kids[2], heap[node2].kids[2]) >>

----------------------------------------------------------------------------
(* The children made for the child tags, checked under SpecRender.         *)

\* the elements of child tag childTag below the render target of c
TagElements(c, childTag) ==
  Range(getElementsByTagName(heap, _getComponentNode(Here, c), childTag))

\* the ids of the elements of child tag childTag in the markup the renderer
\* of c returns
MarkupTagIds(c, childTag) ==
  {IdOf(Parse(heap, trim(Renderer(Here, c))), e) :
     e \in Range(getElementsByTagName(Parse(heap, trim(Renderer(Here, c))),
                                      Len(heap) + 1, childTag))}

\* the components c holds under the id, in its child list
ChildrenWithId(c, id) ==
  {i \in 1..Len(comps[c].childComponents) :
     comps[comps[c].childComponents[i]].htmlNodeId = id}

\* neither an element of the tag with the id of k nor any element with that
\* id is below the render target of c
Vanished(c, childTag, k) ==
  /\ \A e \in TagElements(c, childTag) : IdOf(heap, e) # comps[k].htmlNodeId
  /\ _getChildNode(Here, c, comps[k].htmlNodeId) = 0

\* the component k was removed from its parent during the last call
RemovedInCall(k) == \E i \in 1..Len(log) : log[i] = Event("detached", k)

\* C21: after a call in which a render of c ran to its end, for each child
\* tag of c: every element of the tag in the rendered markup or below the
\* render target has a child registered in the id index under its id unless
\* the factory yields none; no
\* id has more than one child in the child list; and every component the
\* factory made of which neither the tag element nor the id is below the
\* render target any more is out of the child list, the id index and the
\* per-tag list, and is stopped when this call removed it.
C21_TagChildrenReconciled ==
  \A c \in Reentrant :
    RenderCompleted(c) =>
      \A t \in 1..Len(comps[c].childTags) :
        LET childTag == comps[c].childTags[t]
        IN /\ \A id \in MarkupTagIds(c, childTag)
                          \cup {IdOf(heap, e) : e \in TagElements(c, childTag)} :
                \/ getChildComponent(Here, c, id) # Null
                \/ createChildComponent(Here, childTag, id) = Null
           /\ \A id \in {comps[k].htmlNodeId : k \in DOMAIN comps} :
                Cardinality(ChildrenWithId(c, id)) <= 1
           /\ \A k \in TagComps \cap DOMAIN comps :
                Vanished(c, childTag, k) =>
                  /\ k \notin Range(comps[c].childComponents)
                  /\ \A id \in DOMAIN comps[c].childComponentIds :
                       comps[c].childComponentIds[id] # k
                  /\ k \notin Range(comps[c].childComponentsByTag[childTag])
                  /\ RemovedInCall(k) => comps[k].stopped

\* the Model of the started "r" was given a markup without the child tag
\* while "r" held the component made for the element <t id="k1">; the render
\* made by update() ran to its end, and its reconciliation stopped that
\* component and removed it from the three collections
C21_Witness ==
  /\ lastCall.op = "set"
  /\ stack = <<>>
  /\ data["m1"] = "one"
  /\ RenderCompleted("r")
  /\ "k1" \in DOMAIN comps
  /\ Vanished("r", "T", "k1")
  /\ RemovedInCall("k1")
  /\ comps["k1"].stopped
  /\ comps["r"].childComponents = <<>>
  /\ comps["r"].childComponentsByTag["T"] = <<>>
  /\ "k1" \notin DOMAIN comps["r"].childComponentIds

----------------------------------------------------------------------------
(* Child tags without a constructor, checked under SpecTags.               *)

\* the child tags of c that name no constructor and have an element in the
\* markup the renderer of c returns
Unmatched(c) ==
  {childTag \in Range(comps[c].childTags) :
     childTag \notin Constructors /\ MarkupTagIds(c, childTag) # {}}

\* a render of c got past the tests of _doRender during the last call
RenderRan(c) == \E i \in 1..Len(log) : log[i] = Event("beforeRender", c)

\* the render of c ran to its end and c has no child
CompletedWithoutChild(c) ==
  /\ RenderCompleted(c)
  /\ ~comps[c].rendering
  /\ comps[c].childComponents = <<>>
  /\ DOMAIN comps[c].childComponentIds = {}
  /\ \A childTag \in Range(comps[c].childTags) :
       comps[c].childComponentsByTag[childTag] = <<>>

\* C22: a render of a component whose markup holds an element of a declared
\* child tag that matches no constructor (a name bound to nothing, or to a
\* value that is not a function) raises nothing, runs to its end and adds no
\* child.
C22_NoConstructorNoChildNoError ==
  \A c \in Tagged :
    (RenderRan(c) /\ Unmatched(c) # {}) => CompletedWithoutChild(c)

----------------------------------------------------------------------------
(* The model argument of ModelComponent, checked under SpecConstruct.      *)

\* the model argument is a value that is not a Model, or an array that
\* holds one; undefined and null as the argument itself stand for a
\* construction without model
NotAModel(v) ==
  IF v.kind = "Array" THEN \E i \in 1..Len(v.items) : v.items[i].kind # "Model"
  ELSE v.kind \notin {"Model", "undefined", "null"}

\* C23: the construction of a ModelComponent with a model argument that is a
\* value that is not a Model, or an array holding such a value, raises: the
\* constructor does not return a component.
C23_NonModelArgumentRaises ==
  (lastCall.op = "new ModelComponent" /\ NotAModel(lastCall.component)) =>
     /\ log[Len(log)] = Event("threw", lastCall.c)
     /\ lastCall.c \notin DOMAIN comps

----------------------------------------------------------------------------
(* C26: the current page after the route table is set                      *)

\* the route key of a fragment: the text after '#' up to a '?'
RouteKey(hash) ==
  IF hash = <<>> THEN <<>> ELSE SubSeq(hash, 2, FirstOf(hash, {"?"}, 2) - 1)

\* C26: once a route table with a defaultRoute is set, currentPage is the
\* route key of the location fragment (the text after '#' up to a '?'), or
\* the defaultRoute of the table when that text is empty.  The code stops
\* the key at a backslash too: for the fragment '#posts\id' currentPage is
\* 'posts', not 'posts\id'.
C26_CurrentPageIsRouteKey ==
  \A c \in Routers \cap DOMAIN comps :
    DefaultRouteOf(comps[c].routes) # <<>> =>
      data[comps[c].models[1]] =
        IF RouteKey(window.hash) = <<>> THEN DefaultRouteOf(comps[c].routes)
        ELSE RouteKey(window.hash)

----------------------------------------------------------------------------
(* C27: the query parameters of the fragment                               *)

\* the positions where a parameter of the query suffix starts: after the
\* first '?' and after each later '&'
ParamStarts(hash) ==
  LET mark == FirstOf(hash, {"?"}, 1)
  IN {p \in 1..(Len(hash) + 1) :
        /\ mark <= Len(hash)
        /\ p > mark
        /\ (p = mark + 1 \/ hash[p - 1] = "&")}

\* the name of the parameter that starts at p, and its value ('' when it has
\* no '=')
ParamName(hash, p) == SubSeq(hash, p, FirstOf(hash, {"=", "&"}, p) - 1)

ParamValue(hash, p) ==
  SubSeq(hash, FirstOf(hash, {"=", "&"}, p) + 1, FirstOf(hash, {"&"}, p) - 1)

\* what the query suffix says of the parameter name
ExpectedParam(hash, name) ==
  LET named == {p \in ParamStarts(hash) : ParamName(hash, p) = name}
  IN IF named = {} THEN ReturnedNull
     ELSE LET p == CHOOSE p \in named : \A q \in named : p <= q
          IN Returned(Decoded(ParamValue(hash, p)))

\* C27: getRouteQueryParam(name) reads only the query suffix that follows
\* '?' in the location fragment: the decoded value of the parameter, '' when
\* it has no value, null when it is absent, and so null when the fragment
\* has no '?'.  The code searches the whole fragment when it has no '?':
\* for '#posts&id=posts' and the name 'id' it returns 'posts', not null.
C27_QueryParamReadsOnlySuffix ==
  lastCall.op = "getRouteQueryParam" =>
    lastCall.result = ExpectedParam(window.hash, lastCall.component)

----------------------------------------------------------------------------
(* C24: the page transition on a fragment change                           *)

\* the update of the router c, invoked as observer of its route model, is
\* about to run
RouterUpdateRuns(c) ==
  /\ c \in DOMAIN comps
  /\ stack # <<>>
  /\ Top(stack).kind = "observer"
  /\ Top(stack).fn.kind = "bound"
  /\ Top(stack).fn.of = c

\* the page components that are children of the router c
ActivePages(c) == RoutePages \cap Range(comps[c].childComponents)

\* the events the step adds to the log
AddedEvents == {log'[i] : i \in (Len(log) + 1)..Len(log')}

\* C24: with the router started, a change of the location fragment to a
\* page key of the route table sets currentPage to that key, and the update
\* it triggers completes the transition: the document title becomes the
\* title of the entry when it has one, the page that was active is stopped
\* and detached from the router (it stays so unless it is the page of the
\* entry), and the component of the entry is a child of the router, has the
\* content-target id as render target and is started.
C24_FragmentChangeCompletesTransition ==
  [][\A c \in Routers :
       ( /\ RouterUpdateRuns(c)
         /\ ~comps[c].stopped
         /\ IsPage(comps[c].routes, RouteKey(window.hash)) )
       => LET key  == RouteKey(window.hash)
              page == comps[c].routes[key].component
          IN /\ CurrentPage(Here, c) = key
             /\ \A e \in AddedEvents : e.ev # "threw"
             /\ window'.title = IF comps[c].routes[key].title # Null
                                THEN comps[c].routes[key].title
                                ELSE window.title
             /\ \A prev \in ActivePages(c) :
                  /\ Event("stop", prev) \in AddedEvents
                  /\ Event("detached", prev) \in AddedEvents
                  /\ prev # page =>
                       /\ comps'[prev].stopped
                       /\ prev \notin Range(comps'[c].childComponents)
             /\ page \in Range(comps'[c].childComponents)
             /\ comps'[c].childComponentIds[comps[c].pageHtmlId] = page
             /\ comps'[page].htmlNodeId = comps[c].pageHtmlId
             /\ ~comps'[page].stopped
    ]_vars

\* C24 witness: with the router started on the page posts, the fragment
\* has changed to '#login' and the transition is over: login is the page of
\* the router and posts is stopped and detached
C24_Witness ==
  /\ "router" \in DOMAIN comps
  /\ stack = <<>>
  /\ lastCall.op = "hashchange"
  /\ window.hash = <<"#", "login">>
  /\ ~comps["router"].stopped
  /\ Event("detached", "pa") \in Range(log)
  /\ comps["router"].childComponents = <<"pb">>
  /\ comps["pa"].stopped
  /\ ~comps["pb"].stopped
  /\ window.title = "Posts"

----------------------------------------------------------------------------
(* C25: a fragment change to a key that is no page                         *)

\* the step leaves the pages of the router c as they are
NoPageChange(c) ==
  /\ comps'[c].childComponents = comps[c].childComponents
  /\ comps'[c].childComponentIds = comps[c].childComponentIds
  /\ \A page \in RoutePages : comps'[page].stopped = comps[page].stopped
  /\ \A page \in RoutePages : Event("start", page) \notin AddedEvents

\* C25: when the location fragment changes to a key that is not a page of
\* the route table, the update of the router logs, raises no error and
\* changes no page: the active page stays a started child of the router
\* and no other page is started.  The code takes every property of the
\* table for a page, so for '#defaultRoute' and for '#toString' it stops
\* and detaches the active page and raises a TypeError.
C25_UnknownKeyChangesNoPage ==
  [][\A c \in Routers :
       ( /\ RouterUpdateRuns(c)
         /\ RouteKey(window.hash) # <<>>
         /\ ~IsPage(comps[c].routes, RouteKey(window.hash)) )
       => /\ Event("Router undefined page", c) \in AddedEvents
          /\ \A e \in AddedEvents : e.ev # "threw"
          /\ NoPageChange(c)
    ]_vars

----------------------------------------------------------------------------
(* C31: the update-attributes operation                                    *)

\* the attributes of node n as a set of name-value pairs
AttributeSet(h, n) == IF IsElement(h, n) THEN Range(h[n].attrs) ELSE {}

\* diff returned and compared the roots: it did not replace the source root
RootsCompared ==
  /\ phase \in {"diffed", "applied"}
  /\ ReplacePatch(node1, node2) \notin Range(patches)

\* every update-attributes operation that was applied left its source node
\* with exactly the attributes of its target node
AttributesApplied ==
  phase = "applied" =>
    \A i \in 1..Len(patches) :
      patches[i].mode = "attributes" =>
        AttributeSet(heap, patches[i].toReplace) =
          AttributeSet(heap, patches[i].replacement)

\* C31: for the compared roots diff emits an update-attributes operation
\* when, and only when, their attribute sets (name to value) differ, and an
\* applied update-attributes operation leaves the source node with exactly
\* the attributes of the target.  The code compares the attributes position
\* by position, so it emits the operation for equal sets in another order.
C31_AttributesOpIffSetsDiffer ==
  /\ RootsCompared =>
       ( AttributesPatch(node1, node2) \in Range(patches)
           <=> AttributeSet(heap, node1) # AttributeSet(heap, node2) )
  /\ AttributesApplied

----------------------------------------------------------------------------
(* C32: the rendering guard between renders                                *)

\* the render() call the step makes on the started component c, whose
\* target is in the document and whose markup has one root, gets past the
\* guard: the renderer is invoked
RenderExecuted(c) ==
  (/\ AppCalls("render", c)
   /\ ~comps[c].stopped
   /\ TargetDisplayed(c)
   /\ Len(trim(Renderer(Here, c))) = 1)
  => Event("renderer", c) \in Range(log')

\* C32: between two calls no render is in progress, so the rendering guard
\* of every component is clear, also after a render that raised, and a later
\* render() of the started component with valid markup is executed.  The
\* code leaves the guard set when an exception leaves _doRender, and every
\* later render() of the component is dropped.
C32_GuardClearBetweenRenders ==
  /\ [](\A c \in DOMAIN comps : comps[c].rendering = FALSE)
  /\ [][\A c \in DOMAIN comps : RenderExecuted(c)]_vars

----------------------------------------------------------------------------
(* C33: the hooks of the pages on a route transition                       *)

\* how many times the step fires the hook ev of component c
Fired(ev, c) ==
  Cardinality({i \in (Len(log) + 1)..Len(log') : log'[i] = Event(ev, c)})

\* C33: on each route transition of a started router the onStart hook of
\* the newly active page fires exactly once and the onStop hook of the page
\* that was active fires exactly once.  The code starts the new page in
\* addChildComponent and again in _goToCurrentPage, and stops the old page
\* in _goToCurrentPage and again in removeChildComponent; start() and
\* stop() fire their hook on every call.
C33_TransitionFiresHooksOnce ==
  [][\A c \in Routers :
       ( /\ RouterUpdateRuns(c)
         /\ ~comps[c].stopped
         /\ IsPage(comps[c].routes, CurrentPage(Here, c)) )
       => /\ Fired("onStart", ComponentAt(comps[c].routes, CurrentPage(Here, c))) = 1
          /\ \A prev \in ActivePages(c) : Fired("onStop", prev) = 1
    ]_vars

----------------------------------------------------------------------------
(* C34: the stopped router                                                 *)

\* no child of the stopped router c is started
ChildrenOfStoppedAreStopped(c) ==
  comps[c].stopped =>
    \A child \in Range(comps[c].childComponents) : comps[child].stopped

\* the step adds no page to the children of c and starts no page
NoPageEntered(c) ==
  /\ \A page \in RoutePages :
       /\ Event("start", page) \notin AddedEvents
       /\ ~comps'[page].stopped => ~comps[page].stopped
  /\ Range(comps'[c].childComponents) \subseteq Range(comps[c].childComponents)

\* C34: after stop() of the router, whatever start/stop cycles came before,
\* a change of the location fragment neither attaches nor starts a page, and
\* no child of a stopped router is in the started state.  The code leaves
\* the bound update of the router registered on the route model after
\* stop(), so the fragment change still runs _goToCurrentPage, which starts
\* the page of the new key.
C34_StoppedRouterStartsNoPage ==
  /\ [](\A c \in Routers \cap DOMAIN comps : ChildrenOfStoppedAreStopped(c))
  /\ [][\A c \in Routers :
          (RouterUpdateRuns(c) /\ comps[c].stopped) => NoPageEntered(c)]_vars

----------------------------------------------------------------------------
(* C35: the fragment-change handler never raises                           *)

\* the current page of router c is a property of its route table that has
\* no component: defaultRoute, or a name every object inherits
NamesNoComponent(c) ==
  /\ InRoutes(comps[c].routes, CurrentPage(Here, c))
  /\ ComponentAt(comps[c].routes, CurrentPage(Here, c)) = Null

\* C35: the fragment-change handler of a started router completes without
\* raising for every fragment and every route table, and when the fragment
\* names defaultRoute or another key of the table without component the
\* active page stays attached and started.  The code raises a TypeError for
\* such a key, after it has stopped and detached the active page.
C35_HandlerNeverRaises ==
  [][\A c \in Routers :
       (RouterUpdateRuns(c) /\ ~comps[c].stopped)
       => /\ \A e \in AddedEvents : e.ev # "threw"
          /\ NamesNoComponent(c) => NoPageChange(c)
    ]_vars

----------------------------------------------------------------------------
(* C36: one page at a time                                                 *)

\* the page components that are started
StartedPages == {page \in RoutePages \cap DOMAIN comps : ~comps[page].stopped}

\* C36: after any sequence of router starts and changes of the location
\* fragment (to page keys, to unknown keys and to the key already shown) at
\* most one page of the route table is a child of the router and at most one
\* is started, and a started page is the one recorded as the current
\* component.
C36_AtMostOnePage ==
  \A c \in Routers \cap DOMAIN comps :
    /\ Len(SelectSeq(comps[c].childComponents, LAMBDA ch : ch \in RoutePages)) <= 1
    /\ Cardinality(StartedPages) <= 1
    /\ \A page \in StartedPages : comps[c].currentComponent = page

\* C36 witness: the router has shown login and the fragment has changed to
\* '#posts': posts is the one child, started and current, login is stopped
C36_Witness ==
  /\ "router" \in DOMAIN comps
  /\ stack = <<>>
  /\ lastCall.op = "hashchange"
  /\ window.hash = <<"#", "posts">>
  /\ window.title = "Posts"
  /\ comps["pb"].htmlNodeId = comps["router"].pageHtmlId
  /\ comps["pb"].stopped
  /\ comps["router"].childComponents = <<"pa">>
  /\ StartedPages = {"pa"}
  /\ comps["router"].currentComponent = "pa"

----------------------------------------------------------------------------
(* C37: the child list and the id index                                    *)

\* every child in the list of c is found under its render-target id
ListedAreIndexed(c) ==
  \A child \in Range(comps[c].childComponents) :
    /\ comps[child].htmlNodeId \in DOMAIN comps[c].childComponentIds
    /\ comps[c].childComponentIds[comps[child].htmlNodeId] = child

\* every component of the id index of c is in the list
IndexedAreListed(c) ==
  \A id \in DOMAIN comps[c].childComponentIds :
    comps[c].childComponentIds[id] \in Range(comps[c].childComponents)

\* C37: after any sequence of addChildComponent and removeChildComponent
\* calls (two children with the same render-target id, the same child added
\* twice and the removal of a component that is no child included) the id
\* index holds exactly the components of the child list.  The code keeps
\* one component per id, so the second child with an id hides the first, and
\* the removal of one of two entries deletes the id of the entry that stays.
C37_IdIndexMatchesChildList ==
  \A c \in DOMAIN comps : ListedAreIndexed(c) /\ IndexedAreListed(c)

----------------------------------------------------------------------------
(* C38: the observers notified by one set()                                *)

\* how many entries of the sequence s satisfy Test
CountOf(s, Test(_)) == Cardinality({i \in 1..Len(s) : Test(s[i])})

\* the set() call that returned invoked fn as often as fn was registered
\* when the call started to notify
InvokedAsRegistered(fn) ==
  CountOf(returned.calls, LAMBDA call : call.fn = fn)
    = CountOf(returned.registered, LAMBDA observer : observer = fn)

\* C38: every observer registered on the Model when set() starts notifying
\* is invoked exactly once by that set(), also when an observer calls
\* removeObserver or addObserver during the notification.  The code iterates
\* the live array: when an observer is removed during the notification the
\* observers after it move down one place and the next one is passed over.
C38_RegisteredObserversInvokedOnce ==
  returned.valid => \A fn \in Range(returned.registered) : InvokedAsRegistered(fn)

----------------------------------------------------------------------------
(* C39 *)

\* MainComponent.start() was called
MainStartCalled == window.start # "not called"

\* the router is started: super.start() has cleared its stopped flag
RouterStarted == \A c \in Routers : comps[c].stopped = FALSE

\* C39: after MainComponent.start() is called, the router is eventually
\* started, whether the session storage holds no credentials or holds
\* credentials that the backend accepts or rejects
C39_RouterEventuallyStarted == MainStartCalled ~> RouterStarted

====
